-------------------------- MODULE MCClientSession --------------------------
(***************************************************************************)
(* Instances of ClientSession for TLC: the statements clients send;        *)
(* connections and roles are interchangeable.                              *)
(***************************************************************************)
EXTENDS ClientSession, TLC

Symmetry == Permutations(Connections) \cup Permutations(Users)

SetName(value, local) ==
  [do |-> "set", var |-> "application_name", value |-> value, local |-> local]

\* One of each kind: a SET by parameter, to the default, LOCAL, and of a name
\* nobody may set; a planned query, the SHOWs, and control statements.
MixedStatements ==
  {SetName("param", FALSE),
   SetName("default", FALSE),
   SetName("v", TRUE),
   [do |-> "set", var |-> "session_user", value |-> "v", local |-> FALSE],
   [do |-> "select", var |-> "application_name"],
   [do |-> "show", var |-> "all"],
   [do |-> "begin"]}

ShowStatements == {[do |-> "show", var |-> "application_name"]}
=============================================================================
