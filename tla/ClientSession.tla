---------------------------- MODULE ClientSession ----------------------------
(***************************************************************************)
(* The wire protocol server: connections, each with a session context of   *)
(* its own cloned from the base context, the settings a client can change  *)
(* on it, the simple and the extended query protocol, and the capture file *)
(* all connections record into.                                            *)
(*                                                                         *)
(* A connection handles one message at a time.  Parse and Bind only store  *)
(* the statement and its parameters in pgwire, so a client may describe or *)
(* execute any statement at any time.  What statements do besides settings *)
(* is left out (TableInsert has the inserts).                              *)
(***************************************************************************)
EXTENDS Naturals, Sequences, FiniteSets

CONSTANTS
  Connections,  \* connections the server may have at a time
  Users,        \* roles that authenticate
  Values,       \* texts a setting is set to, literally or by a parameter
  Statements,   \* the statements clients send
  Base,         \* the context start_server was given
  None,         \* nothing there
  MaxCaptured   \* bound: queries captured in one run of the server

(***************************************************************************)
(* The settings of ClientOpts, and the names a SET may use.  A statement   *)
(* is a SET of one variable to a literal, to $1 ("param") or to DEFAULT    *)
(* ("default"), a SHOW of one variable or of "all", a SELECT of            *)
(* current_setting(var) or session_user, or a control statement.           *)
(***************************************************************************)
Settings == {"application_name", "datestyle", "search_path", "timezone", "session_user"}
Settable == (Settings \ {"session_user"}) \cup {"extra_float_digits"}
Transactional == {"begin", "commit", "rollback"}

Statement ==
  [do : {"set"}, var : STRING, value : Values \cup {"param", "default"}, local : BOOLEAN]
    \cup [do : {"show", "select"}, var : STRING]
    \cup [do : Transactional \cup {"discard"}]

ASSUME SessionConstants ==
  /\ \A s \in Statements : s \in Statement
  /\ Base \notin Connections
  /\ None \notin Connections /\ None \notin Users /\ None \notin Values
  /\ {"param", "default"} \cap Values = {}
  /\ MaxCaptured \in Nat

\* ClientOpts::default(); "unset" is not a text a client sends.
Unset == "unset"
Defaults == [v \in Settings |-> Unset]

\* What a client that knows the settings o expects.
Told(o) == [v \in Settings |-> {o[v]}]

VARIABLES
  captures,   \* was the server started with a capture file?
  context,    \* context[c]: the session context of connection c
  opts,       \* opts[k]: the ClientOpts of context k
  pc,         \* "closed", "ready", "skipping", "capturing" or "saving"
  user,       \* user[c]: the role c authenticated as
  reply,      \* the reply a query is about to get, once it is captured
  answer,     \* the reply to a query that the last step gave, if it gave one
  described,  \* the description that the last step gave, if it gave one
  entries,    \* CaptureStore.entries
  saver,      \* the connection inside the store's mutex
  file,       \* what this run has put into the capture file, None while it is torn
  expected,   \* history: the values c's client may take each setting to have
  replied,    \* history: the dispatched queries of this run that were replied to
  saved       \* history: has every write of this run reached the file?

sessionVars == <<context, opts, user>>
captureVars == <<entries, saver, file, saved>>
historyVars == <<expected, replied>>
vars == <<captures, sessionVars, pc, reply, captureVars, historyVars, answer, described>>

Closed == [c \in Connections |-> None]

Init ==
  /\ captures \in BOOLEAN
  /\ context = Closed
  /\ opts = [k \in Connections \cup {Base} |-> Defaults]
  /\ pc = [c \in Connections |-> "closed"]
  /\ user = Closed
  /\ reply = Closed
  /\ answer = None
  /\ described = None
  /\ entries = <<>>
  /\ saver = None
  /\ file = <<>>
  /\ expected = [c \in Connections |-> Told(Defaults)]
  /\ replied = <<>>
  /\ saved = TRUE

-----------------------------------------------------------------------------
(* What executing a statement does to the settings. *)

\* classify_set_statement: ApplyToSession.
Applies(s) == s.do = "set" /\ s.var \in Settable /\ ~s.local

(***************************************************************************)
(* execute_sql fails: a SET of a name nobody may set, which reaches the    *)
(* planner; a SET whose parameter is not bound or is NULL; a setting or a  *)
(* statement the engine does not know.  A SET LOCAL is acknowledged before *)
(* its value is looked at.                                                 *)
(***************************************************************************)
Fails(s, param) ==
  \/ s.do = "set" /\ s.var \notin Settable
  \/ Applies(s) /\ s.value = "param" /\ param \notin Values
  \/ s.do = "select" /\ s.var \notin Settings
  \/ s.do \in {"show", "discard"} \cup Transactional

\* The text apply_session_set_statement stores.
StoredValue(s, param) ==
  CASE s.value = "param"   -> param
    [] s.value = "default" -> Unset
    [] OTHER               -> s.value

\* ClientOpts::set, which accepts extra_float_digits and ignores it.
Stored(o, s, param) ==
  IF Applies(s) /\ s.var \in Settings
  THEN [o EXCEPT ![s.var] = StoredValue(s, param)]
  ELSE o

Executed(o, s, param) == IF Fails(s, param) THEN o ELSE Stored(o, s, param)

\* install_authenticated_session_user
Installed(c) == [opts[context[c]] EXCEPT !.session_user = user[c]]

\* The columns of the reply to s, and the settings it tells the values of.
Columns(s) ==
  CASE s.do = "show" /\ s.var = "all" -> {"name", "setting", "description"}
    [] s.do = "show"                  -> {s.var}
    [] s.do = "select"                -> {"value"}
    [] OTHER                          -> {}

Asked(s) ==
  CASE s.do \notin {"show", "select"} -> {}
    [] s.var = "all"                  -> Settings
    [] OTHER                          -> {s.var}

\* A reply; "announced" are the columns the client was told just before.
Reply(c, s, param, extended, ok, o) ==
  [conn |-> c, stmt |-> s, param |-> param, extended |-> extended, ok |-> ok,
   announced |-> IF described # None /\ extended /\ described.conn = c /\ described.stmt = s
                 THEN described.columns ELSE None,
   settings |-> [v \in IF ok THEN Asked(s) ELSE {} |-> o[v]],
   columns |-> IF ok THEN Columns(s) ELSE {}]

-----------------------------------------------------------------------------
(* Connections. *)

\* The step answers and describes nothing.
Silent == answer' = None /\ described' = None

\* Mutant: connections run on the base context.
ConnectToBase(c, u) ==
  /\ pc[c] = "closed"
  /\ context' = [context EXCEPT ![c] = Base]
  /\ user' = [user EXCEPT ![c] = u]
  /\ pc' = [pc EXCEPT ![c] = "ready"]
  /\ expected' = [expected EXCEPT ![c] = Told([Defaults EXCEPT !.session_user = u])]
  /\ Silent
  /\ UNCHANGED <<captures, opts, reply, captureVars, replied>>

\* start_server: a context of its own, with a copy of the base's settings;
\* then the startup handler lets any role in.
Connect(c, u) ==
  /\ pc[c] = "closed"
  /\ context' = [context EXCEPT ![c] = c]
  /\ opts' = [opts EXCEPT ![c] = opts[Base]]
  /\ user' = [user EXCEPT ![c] = u]
  /\ pc' = [pc EXCEPT ![c] = "ready"]
  /\ expected' = [expected EXCEPT ![c] = Told([Defaults EXCEPT !.session_user = u])]
  /\ Silent
  /\ UNCHANGED <<captures, reply, captureVars, replied>>

\* The connection and everything of it is dropped.
Drop(C) ==
  LET dropped(f) == [c \in Connections |-> IF c \in C THEN None ELSE f[c]]
  IN  /\ pc' = [c \in Connections |-> IF c \in C THEN "closed" ELSE pc[c]]
      /\ context' = dropped(context)
      /\ user' = dropped(user)
      /\ reply' = dropped(reply)
      /\ Silent
      /\ expected' = [c \in Connections |-> IF c \in C THEN Told(Defaults) ELSE expected[c]]

Disconnect(c) ==
  /\ pc[c] \in {"ready", "skipping"}
  /\ Drop({c})
  /\ opts' = [opts EXCEPT ![c] = Defaults]
  /\ UNCHANGED <<captures, captureVars, replied>>

\* The server process ends, in the middle of whatever it does, and is started
\* again with the same capture file.
Kill ==
  /\ \E c \in Connections : pc[c] # "closed"
  /\ Drop(Connections)
  /\ opts' = [k \in Connections \cup {Base} |-> Defaults]
  /\ entries' = <<>>
  /\ saver' = None
  /\ file' = <<>>
  /\ replied' = <<>>
  /\ saved' = TRUE
  /\ UNCHANGED captures

-----------------------------------------------------------------------------
(* Queries.  Both handlers answer some statements themselves and dispatch  *)
(* the others, whose outcome is captured before the client gets its reply. *)

Tracked(s) == s.do = "show" /\ s.var \in Settings \cup {"all"}

\* simple_query_builtin_response, extended_query_builtin_response
SimpleBuiltin(s) == s.do \in Transactional \cup {"discard"} \/ Tracked(s)
ExtendedBuiltin(s) == s.do = "discard" \/ Tracked(s)

\* CapturedQuery, by what the properties tell apart.
Entry(r) == <<r.conn, r.ok>>

\* What a client expects of its settings, once it has heard that its SET is done.
Heard(e, r) ==
  IF r.ok /\ Applies(r.stmt) /\ r.stmt.var \in Settings
  THEN [e EXCEPT ![r.stmt.var] = {StoredValue(r.stmt, r.param)}]
  ELSE e

\* The client gets its reply.
Tell(r) ==
  /\ answer' = r
  /\ described' = None
  /\ expected' = [expected EXCEPT ![r.conn] = Heard(@, r)]

\* After an error in the extended protocol messages are skipped up to Sync.
After(r) == IF r.extended /\ ~r.ok THEN "skipping" ELSE "ready"

TellDispatched(r) ==
  /\ Tell(r)
  /\ replied' = IF captures THEN Append(replied, Entry(r)) ELSE replied
  /\ pc' = [pc EXCEPT ![r.conn] = After(r)]

AnswerItself(c, s, param, extended) ==
  /\ opts' = [opts EXCEPT ![context[c]] = Installed(c)]
  /\ Tell(Reply(c, s, param, extended, TRUE, Installed(c)))
  /\ UNCHANGED <<pc, reply, replied>>

\* Mutant: only queries that succeed are captured.
CapturedIfOk(r) == captures /\ r.ok

\* capture_successful_query, capture_failed_query
Captured(r) == captures

Dispatch(c, s, param, extended) ==
  LET o == Executed(Installed(c), s, param)
      r == Reply(c, s, param, extended, ~Fails(s, param), o)
  IN  /\ opts' = [opts EXCEPT ![context[c]] = o]
      /\ \/ /\ Captured(r)
            /\ Len(entries) + Cardinality({d \in Connections : pc[d] = "capturing"}) < MaxCaptured
            /\ pc' = [pc EXCEPT ![c] = "capturing"]
            /\ reply' = [reply EXCEPT ![c] = r]
            /\ Silent
            /\ UNCHANGED <<expected, replied>>
         \/ /\ ~Captured(r)
            /\ TellDispatched(r)
            /\ UNCHANGED reply

SimpleQuery(c, s) ==
  /\ pc[c] = "ready"
  /\ IF SimpleBuiltin(s) THEN AnswerItself(c, s, None, FALSE) ELSE Dispatch(c, s, None, FALSE)
  /\ UNCHANGED <<captures, context, user, captureVars>>

(***************************************************************************)
(* do_describe_statement, do_describe_portal: DISCARD ALL and every SHOW   *)
(* have a hand-written description; any other statement is executed for    *)
(* its schema, without the connection's role being installed.              *)
(***************************************************************************)
HandWritten(s) == s.do \in {"discard", "show"}

Described(s) == IF s.do = "show" THEN {"name", "setting"} ELSE Columns(s)

\* A client that only asked for a description may or may not see its SET done.
MaybeTold(e, s, param) ==
  IF Applies(s) /\ ~Fails(s, param) /\ s.var \in Settings
  THEN [e EXCEPT ![s.var] = @ \cup {StoredValue(s, param)}]
  ELSE e

Describe(c, s, param) ==
  /\ pc[c] = "ready"
  /\ \/ /\ HandWritten(s)
        /\ UNCHANGED <<opts, expected>>
     \/ /\ ~HandWritten(s)
        /\ opts' = [opts EXCEPT ![context[c]] = Executed(@, s, param)]
        /\ expected' = [expected EXCEPT ![c] = MaybeTold(@, s, param)]
  /\ \/ /\ HandWritten(s) \/ ~Fails(s, param)
        /\ described' = [conn |-> c, stmt |-> s, columns |-> Described(s)]
        /\ UNCHANGED pc
     \/ /\ ~HandWritten(s) /\ Fails(s, param)
        /\ described' = None
        /\ pc' = [pc EXCEPT ![c] = "skipping"]
  /\ answer' = None
  /\ UNCHANGED <<captures, context, user, reply, captureVars, replied>>

\* The parameter a portal of s binds, None for none or NULL.
Params(s) == {None} \cup IF s.do = "set" /\ s.value = "param" THEN Values ELSE {}

\* Before any parameter is bound.
DescribeStatement(c, s) == Describe(c, s, None)

DescribePortal(c, s, param) == Describe(c, s, param)

Execute(c, s, param) ==
  /\ pc[c] = "ready"
  /\ IF ExtendedBuiltin(s)
     THEN AnswerItself(c, s, param, TRUE)
     ELSE Dispatch(c, s, param, TRUE)
  /\ UNCHANGED <<captures, context, user, captureVars>>

Sync(c) ==
  /\ pc[c] = "skipping"
  /\ pc' = [pc EXCEPT ![c] = "ready"]
  /\ Silent
  /\ UNCHANGED <<captures, sessionVars, reply, captureVars, historyVars>>

-----------------------------------------------------------------------------
(* CaptureStore::append, save_entries: under the mutex the entry is pushed *)
(* and the file emptied and rewritten.  Nobody hears of a failure.         *)

\* File::create succeeds.
BeginSave(c) ==
  /\ pc[c] = "capturing" /\ saver = None
  /\ saver' = c
  /\ entries' = Append(entries, Entry(reply[c]))
  /\ file' = None
  /\ pc' = [pc EXCEPT ![c] = "saving"]
  /\ Silent
  /\ UNCHANGED <<captures, sessionVars, reply, saved, historyVars>>

\* File::create fails, and the file stays as it was.
SaveFails(c) ==
  /\ pc[c] = "capturing" /\ saver = None
  /\ entries' = Append(entries, Entry(reply[c]))
  /\ saved' = FALSE
  /\ TellDispatched(reply[c])
  /\ reply' = [reply EXCEPT ![c] = None]
  /\ UNCHANGED <<captures, sessionVars, saver, file>>

\* All entries are written, or write_all fails; then the client gets its reply.
EndSave(c) ==
  /\ pc[c] = "saving"
  /\ \/ file' = entries /\ UNCHANGED saved
     \/ saved' = FALSE /\ UNCHANGED file
  /\ saver' = None
  /\ TellDispatched(reply[c])
  /\ reply' = [reply EXCEPT ![c] = None]
  /\ UNCHANGED <<captures, sessionVars, entries>>

Next ==
  \/ \E c \in Connections :
       \/ \E u \in Users : Connect(c, u)
       \/ Disconnect(c)
       \/ \E s \in Statements :
            \/ SimpleQuery(c, s)
            \/ DescribeStatement(c, s)
            \/ \E param \in Params(s) : DescribePortal(c, s, param) \/ Execute(c, s, param)
       \/ Sync(c)
       \/ BeginSave(c) \/ SaveFails(c) \/ EndSave(c)
  \/ Kill

Spec == Init /\ [][Next]_vars

-----------------------------------------------------------------------------
(* Properties. *)

(***************************************************************************)
(* What SHOW, SHOW ALL and current_setting answer is what this client's    *)
(* own last successful SET of the variable wrote, or the default, and      *)
(* session_user is the role it authenticated as, its first statement       *)
(* included: whatever other connections set, whether a SET failed, was     *)
(* LOCAL, or was only described (then the old or the new value), and       *)
(* through both protocols (ClientOpts: "each connection answer SHOW/SET    *)
(* ... with its own values").                                              *)
(***************************************************************************)
ShowTellsOwnSettings ==
  answer # None =>
    \A v \in DOMAIN answer.settings : answer.settings[v] \in expected[answer.conn][v]

EntriesOf(c, list) == LET Mine(e) == e[1] = c IN SelectSeq(list, Mine)

(***************************************************************************)
(* While nobody is writing it and no write has failed, the capture file    *)
(* holds every dispatched query that was replied to in this run, failed    *)
(* ones too, each as often as it was sent and each client's in the order   *)
(* it sent them (CaptureStore: "every connection handler writes into one   *)
(* capture file").  Whatever fails, only a connection that is writing      *)
(* keeps the list's mutex.                                                 *)
(***************************************************************************)
CaptureHoldsAnswers ==
  /\ \A c \in Connections : saver = c => pc[c] = "saving"
  /\ saver = None /\ saved /\ replied # <<>> =>
       \A c \in Connections : EntriesOf(c, file) = EntriesOf(c, replied)

(***************************************************************************)
(* "Describe the parameters and result columns of a prepared statement"    *)
(* (do_describe_statement): a portal whose description succeeded answers   *)
(* with the columns that were announced.                                   *)
(***************************************************************************)
DescriptionMatchesRows ==
  answer # None /\ answer.ok /\ answer.announced # None =>
    answer.columns = answer.announced
=============================================================================
