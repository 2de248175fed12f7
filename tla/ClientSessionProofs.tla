------------------------- MODULE ClientSessionProofs -------------------------
(***************************************************************************)
(* Proofs about ClientSession for any number of connections and roles, any *)
(* texts, any statements and any number of captured queries; and, at the   *)
(* end, about TableInsert, the inserts of these connections into the       *)
(* tables they share, for any number of them and any rows the table was    *)
(* loaded with.                                                            *)
(***************************************************************************)
EXTENDS ClientSession, TableInsert, SequenceTheorems, TLAPS

Texts == Values \cup Users \cup {Unset}

Phases == {"closed", "ready", "skipping", "capturing", "saving"}

Waiting(c) == pc[c] \in {"capturing", "saving"}

(* What the client of c expects once the reply that is waiting for the     *)
(* capture file has reached it.                                            *)
Known(c) == IF Waiting(c) THEN Heard(expected[c], reply[c]) ELSE expected[c]

DomainsInv ==
  /\ DOMAIN context = Connections /\ DOMAIN user = Connections /\ DOMAIN reply = Connections
  /\ DOMAIN pc = Connections /\ DOMAIN expected = Connections
  /\ DOMAIN opts = Connections \cup {Base}
  /\ opts[Base] = Defaults

ConnTypeInv(c) ==
  /\ pc[c] \in Phases /\ opts[c] \in [Settings -> Texts]
  /\ expected[c] \in [Settings -> SUBSET Texts] /\ Known(c) \in [Settings -> SUBSET Texts]

(* A connection runs on its own context, whose settings are the ones its   *)
(* client expects; session_user is only installed when a query comes.      *)
OpenInv(c) ==
  /\ context[c] = c
  /\ user[c] \in Users /\ user[c] \in expected[c]["session_user"]
  /\ \A v \in Settings \ {"session_user"} : opts[c][v] \in Known(c)[v]

(* A reply that waits tells settings that are still the expected ones.     *)
WaitingInv(c) ==
  /\ captures /\ reply[c].conn = c
  /\ \A v \in DOMAIN reply[c].settings : reply[c].settings[v] \in Known(c)[v]

ConnInv(c) ==
  /\ ConnTypeInv(c)
  /\ pc[c] # "closed" => OpenInv(c)
  /\ Waiting(c) => WaitingInv(c)

(* The store is one entry ahead of the replies while a connection is       *)
(* saving, and level with them otherwise.                                  *)
CaptureInv ==
  /\ \A c \in Connections : pc[c] = "saving" <=> saver = c
  /\ saver \in Connections => entries = Append(replied, Entry(reply[saver]))
  /\ saver \notin Connections => saver = None /\ entries = replied
  /\ saver \notin Connections /\ saved => file = entries

IInv ==
  /\ DomainsInv
  /\ \A c \in Connections : ConnInv(c)
  /\ CaptureInv
  /\ ShowTellsOwnSettings

-----------------------------------------------------------------------------
(* A SET that is applied never names session_user. *)
LEMMA AppliedVariables ==
  ASSUME NEW s, Applies(s), s.var \in Settings
  PROVE  s.var \in Settings \ {"session_user"} /\ s.do = "set"
BY DEF Applies, Settings, Settable

(* The text a SET stores is one of Texts, unless it fails. *)
LEMMA StoredText ==
  ASSUME NEW s \in Statements, NEW param, Applies(s), ~Fails(s, param)
  PROVE  StoredValue(s, param) \in Texts
<1>1. s \in Statement /\ s.do = "set"
  BY SessionConstants DEF Applies
<1>2. s.value \in Values \cup {"param", "default"}
  BY <1>1 DEF Statement, Transactional
<1>3. s.value = "param" => param \in Values
  BY DEF Fails
<1> QED BY <1>2, <1>3 DEF StoredValue, Texts

(***************************************************************************)
(* Executing a statement and hearing of it go together: what held of the   *)
(* settings before holds after, session_user's values are left alone.      *)
(***************************************************************************)
LEMMA ExecutedIsHeard ==
  ASSUME NEW s \in Statements, NEW param, NEW r, r.stmt = s, r.param = param,
         r.ok <=> ~Fails(s, param),
         NEW o \in [Settings -> Texts], NEW e \in [Settings -> SUBSET Texts]
  PROVE  /\ Executed(o, s, param) \in [Settings -> Texts]
         /\ Heard(e, r) \in [Settings -> SUBSET Texts]
         /\ \A v \in Settings : o[v] \in e[v] => Executed(o, s, param)[v] \in Heard(e, r)[v]
         /\ Heard(e, r)["session_user"] = e["session_user"]
<1>1. CASE ~Fails(s, param) /\ Applies(s) /\ s.var \in Settings
  <2> DEFINE x == StoredValue(s, param)
  <2>1. x \in Texts /\ s.var \in Settings \ {"session_user"}
    BY <1>1, StoredText, AppliedVariables
  <2>2. Executed(o, s, param) = [o EXCEPT ![s.var] = x]
    BY <1>1 DEF Executed, Stored
  <2>3. Heard(e, r) = [e EXCEPT ![s.var] = {x}]
    BY <1>1 DEF Heard
  <2> HIDE DEF x
  <2> QED BY <2>1, <2>2, <2>3
<1>2. CASE ~(~Fails(s, param) /\ Applies(s) /\ s.var \in Settings)
  BY <1>2 DEF Executed, Stored, Heard
<1> QED BY <1>1, <1>2

(* A client that only described its SET has seen the old or the new value. *)
LEMMA ExecutedMayBeTold ==
  ASSUME NEW s \in Statements, NEW param,
         NEW o \in [Settings -> Texts], NEW e \in [Settings -> SUBSET Texts]
  PROVE  /\ Executed(o, s, param) \in [Settings -> Texts]
         /\ MaybeTold(e, s, param) \in [Settings -> SUBSET Texts]
         /\ \A v \in Settings : o[v] \in e[v] =>
              Executed(o, s, param)[v] \in MaybeTold(e, s, param)[v]
         /\ MaybeTold(e, s, param)["session_user"] = e["session_user"]
<1>1. CASE ~Fails(s, param) /\ Applies(s) /\ s.var \in Settings
  <2> DEFINE x == StoredValue(s, param)
  <2>1. x \in Texts /\ s.var \in Settings \ {"session_user"}
    BY <1>1, StoredText, AppliedVariables
  <2>2. Executed(o, s, param) = [o EXCEPT ![s.var] = x]
    BY <1>1 DEF Executed, Stored
  <2>3. MaybeTold(e, s, param) = [e EXCEPT ![s.var] = @ \cup {x}]
    BY <1>1 DEF MaybeTold
  <2> HIDE DEF x
  <2> QED BY <2>1, <2>2, <2>3
<1>2. CASE ~(~Fails(s, param) /\ Applies(s) /\ s.var \in Settings)
  BY <1>2 DEF Executed, Stored, MaybeTold
<1> QED BY <1>1, <1>2

(* Only settings are told. *)
LEMMA AskedSettings ==
  ASSUME NEW s, NEW param, ~Fails(s, param) \/ SimpleBuiltin(s) \/ ExtendedBuiltin(s)
  PROVE  Asked(s) \subseteq Settings
BY DEF Asked, Fails, SimpleBuiltin, ExtendedBuiltin, Tracked, Transactional, Settings

(* One connection's step leaves what is said of the others alone. *)
OnlyConnection(c) ==
  /\ captures' = captures
  /\ \A d \in Connections : d # c =>
       /\ context'[d] = context[d] /\ user'[d] = user[d] /\ reply'[d] = reply[d]
       /\ pc'[d] = pc[d] /\ expected'[d] = expected[d] /\ opts'[d] = opts[d]

(* Such a step keeps the invariant of every connection if it keeps its own. *)
LEMMA OthersKeepConnInv ==
  ASSUME \A d \in Connections : ConnInv(d), NEW c \in Connections, OnlyConnection(c), ConnInv(c)'
  PROVE  \A d \in Connections : ConnInv(d)'
<1> SUFFICES ASSUME NEW d \in Connections, d # c PROVE ConnInv(d)'
  OBVIOUS
<1>1. /\ context'[d] = context[d] /\ user'[d] = user[d] /\ reply'[d] = reply[d]
      /\ pc'[d] = pc[d] /\ expected'[d] = expected[d] /\ opts'[d] = opts[d] /\ captures' = captures
  BY DEF OnlyConnection
<1>2. (Waiting(d)' <=> Waiting(d)) /\ Known(d)' = Known(d)
  BY <1>1 DEF Known, Waiting
<1> QED BY <1>1, <1>2 DEF ConnInv, ConnTypeInv, OpenInv, WaitingInv

(* Before the first connection. *)
LEMMA InitIInv == Init => IInv
<1> SUFFICES ASSUME Init PROVE IInv
  OBVIOUS
<1>1. DomainsInv
  BY DEF Init, DomainsInv, Closed
<1>2. ASSUME NEW c \in Connections PROVE ConnInv(c)
  <2>1. /\ pc[c] = "closed" /\ opts[c] = Defaults /\ expected[c] = Told(Defaults)
    BY DEF Init
  <2>2. Defaults \in [Settings -> Texts] /\ Told(Defaults) \in [Settings -> SUBSET Texts]
    BY DEF Defaults, Told, Texts
  <2>3. ~Waiting(c) /\ Known(c) = expected[c]
    BY <2>1 DEF Waiting, Known
  <2> QED BY <2>1, <2>2, <2>3 DEF ConnInv, ConnTypeInv, Phases
<1>3. CaptureInv
  <2>1. \A c \in Connections : pc[c] # "saving" /\ saver # c
    BY SessionConstants DEF Init
  <2> QED BY <2>1 DEF Init, CaptureInv
<1>4. ShowTellsOwnSettings
  BY DEF Init, ShowTellsOwnSettings
<1> QED BY <1>1, <1>2, <1>3, <1>4 DEF IInv

(* A connection that is not saving moves, and the store is not touched. *)
LEMMA CaptureAlone ==
  ASSUME CaptureInv, NEW c \in Connections, pc[c] # "saving", pc'[c] # "saving",
         \A d \in Connections : d # c => pc'[d] = pc[d] /\ reply'[d] = reply[d],
         UNCHANGED <<entries, saver, file, saved, replied>>
  PROVE  CaptureInv'
BY DEF CaptureInv, Entry

(* A new connection, with a context of its own. *)
LEMMA ConnectKeepsIInv ==
  ASSUME IInv, NEW c \in Connections, NEW u \in Users, Connect(c, u)
  PROVE  IInv'
<1> DEFINE e == Told([Defaults EXCEPT !.session_user = u])
<1>1. /\ pc[c] = "closed" /\ pc'[c] = "ready" /\ context'[c] = c /\ user'[c] = u
      /\ opts'[c] = Defaults /\ expected'[c] = e /\ answer' = None
      /\ OnlyConnection(c) /\ UNCHANGED <<entries, saver, file, saved, replied>>
  BY DEF IInv, DomainsInv, Connect, Silent, OnlyConnection, captureVars
<1>2. DomainsInv'
  BY SessionConstants DEF IInv, DomainsInv, Connect
<1>3. /\ Defaults \in [Settings -> Texts] /\ e \in [Settings -> SUBSET Texts]
      /\ u \in e["session_user"]
      /\ \A v \in Settings \ {"session_user"} : Defaults[v] \in e[v]
  BY DEF Defaults, Told, Texts, Settings
<1> HIDE DEF e
<1>4. ~Waiting(c)' /\ Known(c)' = e
  BY <1>1 DEF Waiting, Known
<1>5. ConnInv(c)'
  BY <1>1, <1>3, <1>4 DEF ConnInv, ConnTypeInv, OpenInv, Phases
<1>6. CaptureInv'
  BY <1>1, CaptureAlone DEF IInv, OnlyConnection
<1> QED BY <1>1, <1>2, <1>5, <1>6, OthersKeepConnInv DEF IInv, ShowTellsOwnSettings

(* A client that leaves. *)
LEMMA DisconnectKeepsIInv ==
  ASSUME IInv, NEW c \in Connections, Disconnect(c)
  PROVE  IInv'
<1>1. /\ pc[c] \in {"ready", "skipping"} /\ pc'[c] = "closed" /\ answer' = None
      /\ opts'[c] = Defaults /\ expected'[c] = Told(Defaults)
      /\ OnlyConnection(c) /\ UNCHANGED <<entries, saver, file, saved, replied>>
  BY DEF IInv, DomainsInv, Disconnect, Drop, Silent, OnlyConnection, captureVars
<1>2. DomainsInv'
  BY SessionConstants DEF IInv, DomainsInv, Disconnect, Drop
<1>3. Defaults \in [Settings -> Texts] /\ Told(Defaults) \in [Settings -> SUBSET Texts]
  BY DEF Defaults, Told, Texts
<1>4. ~Waiting(c)' /\ Known(c)' = Told(Defaults)
  BY <1>1 DEF Waiting, Known
<1>5. ConnInv(c)'
  BY <1>1, <1>3, <1>4 DEF ConnInv, ConnTypeInv, Phases
<1>6. CaptureInv'
  BY <1>1, CaptureAlone DEF IInv, OnlyConnection
<1> QED BY <1>1, <1>2, <1>5, <1>6, OthersKeepConnInv DEF IInv, ShowTellsOwnSettings

(* A killed server: nothing of its memory is left. *)
LEMMA KillKeepsIInv ==
  ASSUME IInv, Kill
  PROVE  IInv'
<1>1. DomainsInv'
  BY DEF Kill, Drop, DomainsInv
<1>2. ASSUME NEW c \in Connections PROVE ConnInv(c)'
  <2>1. pc'[c] = "closed" /\ opts'[c] = Defaults /\ expected'[c] = Told(Defaults)
    BY DEF Kill, Drop
  <2>2. Defaults \in [Settings -> Texts] /\ Told(Defaults) \in [Settings -> SUBSET Texts]
    BY DEF Defaults, Told, Texts
  <2>3. ~Waiting(c)' /\ Known(c)' = expected'[c]
    BY <2>1 DEF Waiting, Known
  <2> QED BY <2>1, <2>2, <2>3 DEF ConnInv, ConnTypeInv, Phases
<1>3. CaptureInv'
  <2>1. \A c \in Connections : pc'[c] # "saving" /\ saver' # c
    BY SessionConstants DEF Kill, Drop
  <2> QED BY <2>1 DEF Kill, CaptureInv
<1>4. ShowTellsOwnSettings'
  BY DEF Kill, Drop, Silent, ShowTellsOwnSettings
<1> QED BY <1>1, <1>2, <1>3, <1>4 DEF IInv

(* The role is installed before a query is answered: then every setting is *)
(* one the client expects.                                                 *)
LEMMA InstalledIsKnown ==
  ASSUME IInv, NEW c \in Connections, pc[c] = "ready"
  PROVE  /\ context[c] = c /\ Installed(c) \in [Settings -> Texts]
         /\ expected[c] \in [Settings -> SUBSET Texts]
         /\ \A v \in Settings : Installed(c)[v] \in expected[c][v]
<1>1. /\ context[c] = c /\ opts[c] \in [Settings -> Texts] /\ user[c] \in Users
      /\ user[c] \in expected[c]["session_user"]
      /\ expected[c] \in [Settings -> SUBSET Texts]
      /\ \A v \in Settings \ {"session_user"} : opts[c][v] \in expected[c][v]
  BY DEF IInv, ConnInv, ConnTypeInv, OpenInv, Known, Waiting
<1>2. Installed(c) = [opts[c] EXCEPT !["session_user"] = user[c]] /\ user[c] \in Texts
  BY <1>1 DEF Installed, Texts
<1> QED BY <1>1, <1>2

(* A statement the handler answers itself. *)
LEMMA AnswerKeepsIInv ==
  ASSUME IInv, NEW c \in Connections, NEW s \in Statements, NEW param, NEW extended,
         pc[c] = "ready", SimpleBuiltin(s) \/ ExtendedBuiltin(s),
         AnswerItself(c, s, param, extended),
         UNCHANGED <<captures, context, user, captureVars>>
  PROVE  IInv'
<1> DEFINE o == Installed(c)
           r == Reply(c, s, param, extended, TRUE, o)
<1>1. /\ context[c] = c /\ o \in [Settings -> Texts]
      /\ expected[c] \in [Settings -> SUBSET Texts]
      /\ \A v \in Settings : o[v] \in expected[c][v]
  BY InstalledIsKnown
<1>2. opts' = [opts EXCEPT ![c] = o] /\ Tell(r) /\ UNCHANGED <<pc, reply, replied>>
  BY <1>1 DEF AnswerItself
<1>3. /\ r.conn = c /\ r.stmt = s
      /\ DOMAIN r.settings \subseteq Settings
      /\ \A v \in DOMAIN r.settings : r.settings[v] = o[v]
  <2>1. Asked(s) \subseteq Settings
    BY AskedSettings
  <2> HIDE DEF o
  <2>2. r.conn = c /\ r.stmt = s /\ r.settings = [v \in IF TRUE THEN Asked(s) ELSE {} |-> o[v]]
    BY DEF Reply
  <2> QED BY <2>1, <2>2
<1> HIDE DEF o, r
<1>4. ~Applies(s)
  BY DEF SimpleBuiltin, ExtendedBuiltin, Tracked, Transactional, Applies
<1>5. Heard(expected[c], r) = expected[c]
  BY <1>3, <1>4 DEF Heard
<1>6. /\ answer' = r /\ DOMAIN expected' = Connections
      /\ \A d \in Connections : expected'[d] = expected[d]
  BY <1>2, <1>3, <1>5 DEF Tell, IInv, DomainsInv
<1>7. DomainsInv'
  BY <1>2, <1>6, SessionConstants DEF IInv, DomainsInv
<1>8. opts'[c] = o /\ OnlyConnection(c)
  BY <1>2, <1>6 DEF IInv, DomainsInv, OnlyConnection
<1>9. ConnInv(c)'
  <2>1. /\ ~Waiting(c)' /\ Known(c)' = expected[c] /\ pc'[c] = pc[c]
        /\ context'[c] = context[c] /\ user'[c] = user[c]
    BY <1>2, <1>6 DEF Waiting, Known
  <2>2. ConnInv(c) /\ ~Waiting(c)
    BY DEF IInv, Waiting
  <2> QED BY <1>1, <1>6, <1>8, <2>1, <2>2 DEF ConnInv, ConnTypeInv, OpenInv
<1>10. CaptureInv'
  BY <1>2 DEF IInv, CaptureInv, captureVars, Entry
<1>11. ShowTellsOwnSettings'
  BY <1>1, <1>3, <1>6 DEF ShowTellsOwnSettings
<1> QED BY <1>7, <1>8, <1>9, <1>10, <1>11, OthersKeepConnInv DEF IInv

(* Whatever a client hears, its role stays what it was. *)
LEMMA HeardKeepsUser ==
  ASSUME NEW e \in [Settings -> SUBSET Texts], NEW r
  PROVE  Heard(e, r)["session_user"] = e["session_user"]
BY AppliedVariables DEF Heard, Settings

(* A dispatched query gets its reply r, and the client expects what it     *)
(* heard.                                                                  *)
LEMMA TellKeepsConn ==
  ASSUME IInv, NEW c \in Connections, pc[c] # "closed", NEW r, r.conn = c, TellDispatched(r),
         Heard(expected[c], r) \in [Settings -> SUBSET Texts],
         \A v \in DOMAIN r.settings : r.settings[v] \in Heard(expected[c], r)[v],
         opts'[c] \in [Settings -> Texts],
         \A v \in Settings \ {"session_user"} : opts'[c][v] \in Heard(expected[c], r)[v],
         \A d \in Connections : d # c => reply'[d] = reply[d] /\ opts'[d] = opts[d],
         UNCHANGED <<captures, context, user>>
  PROVE  /\ \A d \in Connections : ConnInv(d)'
         /\ ShowTellsOwnSettings'
         /\ DOMAIN pc' = Connections /\ DOMAIN expected' = Connections
         /\ pc'[c] \in {"ready", "skipping"}
         /\ \A d \in Connections : d # c => pc'[d] = pc[d]
         /\ replied' = IF captures THEN Append(replied, Entry(r)) ELSE replied
<1> DEFINE e == Heard(expected[c], r)
<1>1. /\ answer' = r /\ expected' = [expected EXCEPT ![c] = e]
      /\ pc' = [pc EXCEPT ![c] = After(r)] /\ After(r) \in {"ready", "skipping"}
      /\ replied' = IF captures THEN Append(replied, Entry(r)) ELSE replied
  BY DEF TellDispatched, Tell, After
<1>2. e["session_user"] = expected[c]["session_user"]
  BY HeardKeepsUser DEF IInv, ConnInv, ConnTypeInv
<1> HIDE DEF e
<1>3. /\ DOMAIN pc' = Connections /\ DOMAIN expected' = Connections
      /\ pc'[c] = After(r) /\ expected'[c] = e
      /\ \A d \in Connections : d # c => pc'[d] = pc[d] /\ expected'[d] = expected[d]
  BY <1>1 DEF IInv, DomainsInv
<1>4. OnlyConnection(c)
  BY <1>3 DEF OnlyConnection
<1>5. ConnInv(c)'
  <2>1. ~Waiting(c)' /\ Known(c)' = e
    BY <1>1, <1>3 DEF Waiting, Known
  <2>2. context[c] = c /\ user[c] \in Users /\ user[c] \in expected[c]["session_user"]
    BY DEF IInv, ConnInv, OpenInv
  <2> QED BY <1>1, <1>2, <1>3, <2>1, <2>2 DEF ConnInv, ConnTypeInv, OpenInv, Phases, e
<1>6. \A d \in Connections : ConnInv(d)'
  BY <1>4, <1>5, OthersKeepConnInv DEF IInv
<1>7. ShowTellsOwnSettings'
  BY <1>1, <1>3 DEF ShowTellsOwnSettings, e
<1> QED BY <1>1, <1>3, <1>6, <1>7

(* A dispatched statement: its outcome waits to be captured, or the client *)
(* hears of it at once.                                                    *)
LEMMA DispatchKeepsIInv ==
  ASSUME IInv, NEW c \in Connections, NEW s \in Statements, NEW param, NEW extended,
         pc[c] = "ready", Dispatch(c, s, param, extended),
         UNCHANGED <<captures, context, user, captureVars>>
  PROVE  IInv'
<1> DEFINE i == Installed(c)
           o == Executed(i, s, param)
           r == Reply(c, s, param, extended, ~Fails(s, param), o)
           e == Heard(expected[c], r)
<1>1. /\ context[c] = c /\ i \in [Settings -> Texts]
      /\ expected[c] \in [Settings -> SUBSET Texts]
      /\ \A v \in Settings : i[v] \in expected[c][v]
  BY InstalledIsKnown
<1>2. /\ opts' = [opts EXCEPT ![c] = o]
      /\ \/ /\ captures
            /\ pc' = [pc EXCEPT ![c] = "capturing"]
            /\ reply' = [reply EXCEPT ![c] = r]
            /\ Silent /\ UNCHANGED <<expected, replied>>
         \/ ~captures /\ TellDispatched(r) /\ reply' = reply
  BY <1>1 DEF Dispatch, Captured
<1> HIDE DEF i
<1>3. /\ r.conn = c /\ r.stmt = s /\ r.param = param /\ (r.ok <=> ~Fails(s, param))
      /\ DOMAIN r.settings \subseteq Settings
      /\ \A v \in DOMAIN r.settings : r.settings[v] = o[v]
  <2> HIDE DEF o
  <2>1. r.conn = c /\ r.stmt = s /\ r.param = param /\ (r.ok <=> ~Fails(s, param))
    BY DEF Reply
  <2>2. r.settings = [v \in IF ~Fails(s, param) THEN Asked(s) ELSE {} |-> o[v]]
    BY DEF Reply
  <2>3. ~Fails(s, param) => Asked(s) \subseteq Settings
    BY AskedSettings
  <2> HIDE DEF r
  <2> QED BY <2>1, <2>2, <2>3
<1> HIDE DEF r
<1>4. /\ o \in [Settings -> Texts] /\ e \in [Settings -> SUBSET Texts]
      /\ \A v \in Settings : o[v] \in e[v]
      /\ e["session_user"] = expected[c]["session_user"]
  BY <1>1, <1>3, ExecutedIsHeard
<1> HIDE DEF o, e
<1>5. /\ DOMAIN opts' = Connections \cup {Base} /\ opts'[Base] = Defaults /\ opts'[c] = o
      /\ \A d \in Connections : d # c => opts'[d] = opts[d]
  BY <1>2, SessionConstants DEF IInv, DomainsInv
<1>6. CASE /\ captures
           /\ pc' = [pc EXCEPT ![c] = "capturing"] /\ reply' = [reply EXCEPT ![c] = r]
           /\ Silent /\ UNCHANGED <<expected, replied>>
  <2>1. /\ pc'[c] = "capturing" /\ reply'[c] = r
        /\ DOMAIN pc' = Connections /\ DOMAIN reply' = Connections
        /\ \A d \in Connections : d # c => pc'[d] = pc[d] /\ reply'[d] = reply[d]
    BY <1>6 DEF IInv, DomainsInv
  <2>2. DomainsInv' /\ OnlyConnection(c)
    BY <1>5, <1>6, <2>1 DEF IInv, DomainsInv, OnlyConnection
  <2>3. ConnInv(c)'
    <3>1. Waiting(c)' /\ Known(c)' = e
      BY <1>6, <2>1 DEF Waiting, Known, e
    <3>2. context[c] = c /\ user[c] \in Users /\ user[c] \in expected[c]["session_user"]
      BY DEF IInv, ConnInv, OpenInv
    <3> QED BY <1>1, <1>3, <1>4, <1>5, <1>6, <2>1, <3>1, <3>2
            DEF ConnInv, ConnTypeInv, OpenInv, WaitingInv, Phases
  <2>4. CaptureInv'
    BY <1>6, <2>1, CaptureAlone DEF IInv, captureVars
  <2>5. ShowTellsOwnSettings'
    BY <1>6 DEF Silent, ShowTellsOwnSettings
  <2> QED BY <2>2, <2>3, <2>4, <2>5, OthersKeepConnInv DEF IInv
<1>7. CASE ~captures /\ TellDispatched(r) /\ reply' = reply
  <2>1. /\ Heard(expected[c], r) \in [Settings -> SUBSET Texts]
        /\ \A v \in DOMAIN r.settings : r.settings[v] \in Heard(expected[c], r)[v]
        /\ opts'[c] \in [Settings -> Texts]
        /\ \A v \in Settings \ {"session_user"} : opts'[c][v] \in Heard(expected[c], r)[v]
    BY <1>3, <1>4, <1>5 DEF e
  <2>2. /\ \A d \in Connections : ConnInv(d)'
        /\ ShowTellsOwnSettings'
        /\ DOMAIN pc' = Connections /\ DOMAIN expected' = Connections
        /\ pc'[c] \in {"ready", "skipping"}
        /\ \A d \in Connections : d # c => pc'[d] = pc[d]
        /\ replied' = IF captures THEN Append(replied, Entry(r)) ELSE replied
    BY <1>3, <1>5, <1>7, <2>1, TellKeepsConn
  <2>3. DomainsInv'
    BY <1>5, <1>7, <2>2 DEF IInv, DomainsInv
  <2>4. CaptureInv'
    BY <1>7, <2>2, CaptureAlone DEF IInv, captureVars
  <2> QED BY <2>2, <2>3, <2>4 DEF IInv
<1> QED BY <1>2, <1>6, <1>7

(* A description, which may execute the statement. *)
LEMMA DescribeKeepsIInv ==
  ASSUME IInv, NEW c \in Connections, NEW s \in Statements, NEW param, Describe(c, s, param)
  PROVE  IInv'
<1>1. /\ pc[c] = "ready" /\ answer' = None
      /\ UNCHANGED <<captures, context, user, reply, entries, saver, file, saved, replied>>
      /\ \/ UNCHANGED <<opts, expected>>
         \/ /\ opts' = [opts EXCEPT ![context[c]] = Executed(@, s, param)]
            /\ expected' = [expected EXCEPT ![c] = MaybeTold(@, s, param)]
      /\ pc' = pc \/ pc' = [pc EXCEPT ![c] = "skipping"]
  BY DEF Describe, captureVars
<1>2. /\ context[c] = c /\ user[c] \in Users /\ user[c] \in expected[c]["session_user"]
      /\ opts[c] \in [Settings -> Texts] /\ expected[c] \in [Settings -> SUBSET Texts]
      /\ \A v \in Settings \ {"session_user"} : opts[c][v] \in expected[c][v]
  BY <1>1 DEF IInv, ConnInv, ConnTypeInv, OpenInv, Known, Waiting
<1>3. /\ DOMAIN pc' = Connections /\ pc'[c] \in {"ready", "skipping"}
      /\ \A d \in Connections : d # c => pc'[d] = pc[d]
  BY <1>1 DEF IInv, DomainsInv
<1>4. /\ DOMAIN opts' = Connections \cup {Base} /\ opts'[Base] = Defaults
      /\ DOMAIN expected' = Connections
      /\ opts'[c] \in [Settings -> Texts] /\ expected'[c] \in [Settings -> SUBSET Texts]
      /\ user[c] \in expected'[c]["session_user"]
      /\ \A v \in Settings \ {"session_user"} : opts'[c][v] \in expected'[c][v]
      /\ \A d \in Connections : d # c => opts'[d] = opts[d] /\ expected'[d] = expected[d]
  <2>1. CASE UNCHANGED <<opts, expected>>
    BY <1>2, <2>1 DEF IInv, DomainsInv
  <2>2. CASE /\ opts' = [opts EXCEPT ![context[c]] = Executed(@, s, param)]
             /\ expected' = [expected EXCEPT ![c] = MaybeTold(@, s, param)]
    <3> DEFINE o == Executed(opts[c], s, param)
               e == MaybeTold(expected[c], s, param)
    <3>1. /\ o \in [Settings -> Texts] /\ e \in [Settings -> SUBSET Texts]
          /\ \A v \in Settings : opts[c][v] \in expected[c][v] => o[v] \in e[v]
          /\ e["session_user"] = expected[c]["session_user"]
      <4> DEFINE oc == opts[c]
                 ec == expected[c]
      <4>1. oc \in [Settings -> Texts] /\ ec \in [Settings -> SUBSET Texts]
        BY <1>2
      <4> HIDE DEF oc, ec
      <4>2. /\ Executed(oc, s, param) \in [Settings -> Texts]
            /\ MaybeTold(ec, s, param) \in [Settings -> SUBSET Texts]
            /\ \A v \in Settings : oc[v] \in ec[v] =>
                 Executed(oc, s, param)[v] \in MaybeTold(ec, s, param)[v]
            /\ MaybeTold(ec, s, param)["session_user"] = ec["session_user"]
        BY <4>1, ExecutedMayBeTold
      <4> QED BY <4>2 DEF oc, ec
    <3>2. opts' = [opts EXCEPT ![c] = o] /\ expected' = [expected EXCEPT ![c] = e]
      BY <1>2, <2>2
    <3> HIDE DEF o, e
    <3>3. /\ DOMAIN opts' = Connections \cup {Base} /\ opts'[Base] = Defaults
          /\ DOMAIN expected' = Connections /\ opts'[c] = o /\ expected'[c] = e
          /\ \A d \in Connections : d # c => opts'[d] = opts[d] /\ expected'[d] = expected[d]
      BY <3>2, SessionConstants DEF IInv, DomainsInv
    <3> QED BY <1>2, <3>1, <3>3
  <2> QED BY <1>1, <2>1, <2>2
<1>5. DomainsInv' /\ OnlyConnection(c)
  BY <1>1, <1>3, <1>4 DEF IInv, DomainsInv, OnlyConnection
<1>6. ConnInv(c)'
  <2>1. ~Waiting(c)' /\ Known(c)' = expected'[c]
    BY <1>3 DEF Waiting, Known
  <2> QED BY <1>1, <1>2, <1>3, <1>4, <2>1 DEF ConnInv, ConnTypeInv, OpenInv, Phases
<1>7. CaptureInv'
  BY <1>1, <1>3, CaptureAlone DEF IInv
<1> QED BY <1>1, <1>5, <1>6, <1>7, OthersKeepConnInv DEF IInv, ShowTellsOwnSettings

(* The end of an error's skipping. *)
LEMMA SyncKeepsIInv ==
  ASSUME IInv, NEW c \in Connections, Sync(c)
  PROVE  IInv'
<1>1. /\ pc[c] = "skipping" /\ pc' = [pc EXCEPT ![c] = "ready"] /\ answer' = None
      /\ UNCHANGED <<captures, context, opts, user, reply, expected>>
      /\ UNCHANGED <<entries, saver, file, saved, replied>>
  BY DEF Sync, Silent, sessionVars, captureVars, historyVars
<1>2. /\ DOMAIN pc' = Connections /\ pc'[c] = "ready"
      /\ \A d \in Connections : d # c => pc'[d] = pc[d]
  BY <1>1 DEF IInv, DomainsInv
<1>3. DomainsInv' /\ OnlyConnection(c)
  BY <1>1, <1>2 DEF IInv, DomainsInv, OnlyConnection
<1>4. ConnInv(c)'
  <2>1. ~Waiting(c) /\ ~Waiting(c)' /\ Known(c)' = expected[c] /\ Known(c) = expected[c]
    BY <1>1, <1>2 DEF Waiting, Known
  <2> QED BY <1>1, <1>2, <2>1 DEF IInv, ConnInv, ConnTypeInv, OpenInv, Phases
<1>5. CaptureInv'
  BY <1>1, <1>2, CaptureAlone DEF IInv
<1> QED BY <1>1, <1>3, <1>4, <1>5, OthersKeepConnInv DEF IInv, ShowTellsOwnSettings

(* The mutex is taken and the entry pushed, before the reply goes out. *)
LEMMA BeginSaveKeepsIInv ==
  ASSUME IInv, NEW c \in Connections, BeginSave(c)
  PROVE  IInv'
<1>1. /\ pc[c] = "capturing" /\ saver = None /\ saver' = c
      /\ pc' = [pc EXCEPT ![c] = "saving"] /\ answer' = None
      /\ entries' = Append(entries, Entry(reply[c]))
      /\ UNCHANGED <<captures, context, opts, user, reply, expected, replied>>
  BY DEF BeginSave, Silent, sessionVars, historyVars
<1>2. /\ DOMAIN pc' = Connections /\ pc'[c] = "saving"
      /\ \A d \in Connections : d # c => pc'[d] = pc[d]
  BY <1>1 DEF IInv, DomainsInv
<1>3. DomainsInv' /\ OnlyConnection(c)
  BY <1>1, <1>2 DEF IInv, DomainsInv, OnlyConnection
<1>4. ConnInv(c)'
  <2>1. Waiting(c) /\ Waiting(c)' /\ Known(c)' = Known(c)
    BY <1>1, <1>2 DEF Waiting, Known
  <2> QED BY <1>1, <1>2, <2>1 DEF IInv, ConnInv, ConnTypeInv, OpenInv, WaitingInv, Phases
<1>5. CaptureInv'
  <2>1. None \notin Connections
    BY SessionConstants
  <2>2. \A d \in Connections : d # c => pc'[d] # "saving"
    BY <1>1, <1>2, <2>1 DEF IInv, CaptureInv
  <2>3. entries' = Append(replied', Entry(reply'[saver']))
    BY <1>1, <2>1 DEF IInv, CaptureInv, Entry
  <2> QED BY <1>1, <1>2, <2>2, <2>3 DEF CaptureInv
<1> QED BY <1>1, <1>3, <1>4, <1>5, OthersKeepConnInv DEF IInv, ShowTellsOwnSettings

(***************************************************************************)
(* A reply that waited goes out, and the connection is ready again.        *)
(***************************************************************************)
LEMMA WaitingIsTold ==
  ASSUME IInv, NEW c \in Connections, Waiting(c), TellDispatched(reply[c]),
         reply' = [reply EXCEPT ![c] = None],
         UNCHANGED <<captures, context, user, opts>>
  PROVE  /\ DomainsInv' /\ (\A d \in Connections : ConnInv(d)') /\ ShowTellsOwnSettings'
         /\ pc'[c] \in {"ready", "skipping"}
         /\ \A d \in Connections : d # c => pc'[d] = pc[d] /\ reply'[d] = reply[d]
         /\ replied' = Append(replied, Entry(reply[c]))
<1> DEFINE r == reply[c]
           oc == opts'[c]
<1>1. pc[c] # "closed" /\ Known(c) = Heard(expected[c], r)
  BY DEF Waiting, Known
<1>2. /\ captures /\ r.conn = c /\ Heard(expected[c], r) \in [Settings -> SUBSET Texts]
      /\ \A v \in DOMAIN r.settings : r.settings[v] \in Heard(expected[c], r)[v]
      /\ oc \in [Settings -> Texts]
      /\ \A v \in Settings \ {"session_user"} : oc[v] \in Heard(expected[c], r)[v]
  BY <1>1 DEF IInv, ConnInv, ConnTypeInv, OpenInv, WaitingInv
<1>3. \A d \in Connections : d # c => reply'[d] = reply[d] /\ opts'[d] = opts[d]
  BY DEF IInv, DomainsInv
<1>4. TellDispatched(r)
  OBVIOUS
<1> HIDE DEF r
<1>5. /\ \A d \in Connections : ConnInv(d)'
      /\ ShowTellsOwnSettings'
      /\ DOMAIN pc' = Connections /\ DOMAIN expected' = Connections
      /\ pc'[c] \in {"ready", "skipping"}
      /\ \A d \in Connections : d # c => pc'[d] = pc[d]
      /\ replied' = IF captures THEN Append(replied, Entry(r)) ELSE replied
  BY <1>1, <1>2, <1>3, <1>4, TellKeepsConn
<1>6. DomainsInv'
  BY <1>5 DEF IInv, DomainsInv
<1> QED BY <1>2, <1>3, <1>5, <1>6 DEF r

(* The file cannot be created: the entry stays in the list. *)
LEMMA SaveFailsKeepsIInv ==
  ASSUME IInv, NEW c \in Connections, SaveFails(c)
  PROVE  IInv'
<1>1. /\ Waiting(c) /\ TellDispatched(reply[c]) /\ reply' = [reply EXCEPT ![c] = None]
      /\ UNCHANGED <<captures, context, user, opts>>
      /\ pc[c] = "capturing" /\ saver = None /\ saver' = None /\ ~saved'
      /\ entries' = Append(entries, Entry(reply[c]))
  BY DEF SaveFails, Waiting, sessionVars
<1>2. /\ DomainsInv' /\ (\A d \in Connections : ConnInv(d)') /\ ShowTellsOwnSettings'
      /\ pc'[c] \in {"ready", "skipping"}
      /\ \A d \in Connections : d # c => pc'[d] = pc[d] /\ reply'[d] = reply[d]
      /\ replied' = Append(replied, Entry(reply[c]))
  BY <1>1, WaitingIsTold
<1>3. CaptureInv'
  <2>1. None \notin Connections
    BY SessionConstants
  <2>2. \A d \in Connections : pc'[d] # "saving"
    BY <1>1, <1>2, <2>1 DEF IInv, CaptureInv
  <2>3. entries' = replied'
    BY <1>1, <1>2, <2>1 DEF IInv, CaptureInv
  <2> QED BY <1>1, <2>1, <2>2, <2>3 DEF CaptureInv
<1> QED BY <1>2, <1>3 DEF IInv

(* The file is written or torn, the mutex left and the reply sent. *)
LEMMA EndSaveKeepsIInv ==
  ASSUME IInv, NEW c \in Connections, EndSave(c)
  PROVE  IInv'
<1>1. /\ Waiting(c) /\ TellDispatched(reply[c]) /\ reply' = [reply EXCEPT ![c] = None]
      /\ UNCHANGED <<captures, context, user, opts, entries>>
      /\ pc[c] = "saving" /\ saver' = None /\ (file' = entries \/ ~saved')
  BY DEF EndSave, Waiting, sessionVars
<1>2. /\ DomainsInv' /\ (\A d \in Connections : ConnInv(d)') /\ ShowTellsOwnSettings'
      /\ pc'[c] \in {"ready", "skipping"}
      /\ \A d \in Connections : d # c => pc'[d] = pc[d] /\ reply'[d] = reply[d]
      /\ replied' = Append(replied, Entry(reply[c]))
  BY <1>1, WaitingIsTold
<1>3. CaptureInv'
  <2>1. None \notin Connections
    BY SessionConstants
  <2>2. saver = c
    BY <1>1 DEF IInv, CaptureInv
  <2>3. \A d \in Connections : pc'[d] # "saving"
    BY <1>1, <1>2, <2>2 DEF IInv, CaptureInv
  <2>4. entries' = replied'
    BY <1>1, <1>2, <2>2 DEF IInv, CaptureInv
  <2> QED BY <1>1, <2>1, <2>3, <2>4 DEF CaptureInv
<1> QED BY <1>2, <1>3 DEF IInv

(* Every step keeps the invariant. *)
LEMMA NextIInv == IInv /\ [Next]_vars => IInv'
<1> SUFFICES ASSUME IInv, [Next]_vars PROVE IInv'
  OBVIOUS
<1>1. CASE UNCHANGED vars
  <2>1. /\ UNCHANGED <<captures, context, opts, user, pc, reply, entries, saver, file, saved>>
        /\ UNCHANGED <<expected, replied, answer>>
    BY <1>1 DEF vars, sessionVars, captureVars, historyVars
  <2>2. ASSUME NEW c \in Connections PROVE ConnInv(c)'
    <3>1. ConnInv(c) /\ (Waiting(c)' <=> Waiting(c)) /\ Known(c)' = Known(c)
      BY <2>1 DEF IInv, Waiting, Known
    <3> QED BY <2>1, <3>1 DEF ConnInv, ConnTypeInv, OpenInv, WaitingInv
  <2>3. DomainsInv' /\ CaptureInv' /\ ShowTellsOwnSettings'
    BY <2>1 DEF IInv, DomainsInv, CaptureInv, Entry, ShowTellsOwnSettings
  <2> QED BY <2>2, <2>3 DEF IInv
<1>2. ASSUME NEW c \in Connections, NEW u \in Users, Connect(c, u) PROVE IInv'
  BY <1>2, ConnectKeepsIInv
<1>3. ASSUME NEW c \in Connections, Disconnect(c) PROVE IInv'
  BY <1>3, DisconnectKeepsIInv
<1>4. ASSUME NEW c \in Connections, NEW s \in Statements, SimpleQuery(c, s) PROVE IInv'
  <2>1. pc[c] = "ready" /\ UNCHANGED <<captures, context, user, captureVars>>
    BY <1>4 DEF SimpleQuery
  <2>2. CASE SimpleBuiltin(s)
    BY <1>4, <2>1, <2>2, AnswerKeepsIInv DEF SimpleQuery
  <2>3. CASE ~SimpleBuiltin(s)
    BY <1>4, <2>1, <2>3, DispatchKeepsIInv DEF SimpleQuery
  <2> QED BY <2>2, <2>3
<1>5. ASSUME NEW c \in Connections, NEW s \in Statements, DescribeStatement(c, s) PROVE IInv'
  BY <1>5, DescribeKeepsIInv DEF DescribeStatement
<1>6. ASSUME NEW c \in Connections, NEW s \in Statements, NEW param, DescribePortal(c, s, param)
      PROVE  IInv'
  BY <1>6, DescribeKeepsIInv DEF DescribePortal
<1>7. ASSUME NEW c \in Connections, NEW s \in Statements, NEW param, Execute(c, s, param)
      PROVE  IInv'
  <2>1. pc[c] = "ready" /\ UNCHANGED <<captures, context, user, captureVars>>
    BY <1>7 DEF Execute
  <2>2. CASE ExtendedBuiltin(s)
    BY <1>7, <2>1, <2>2, AnswerKeepsIInv DEF Execute
  <2>3. CASE ~ExtendedBuiltin(s)
    BY <1>7, <2>1, <2>3, DispatchKeepsIInv DEF Execute
  <2> QED BY <2>2, <2>3
<1>8. ASSUME NEW c \in Connections, Sync(c) PROVE IInv'
  BY <1>8, SyncKeepsIInv
<1>9. ASSUME NEW c \in Connections, BeginSave(c) \/ SaveFails(c) \/ EndSave(c) PROVE IInv'
  BY <1>9, BeginSaveKeepsIInv, SaveFailsKeepsIInv, EndSaveKeepsIInv
<1>10. CASE Kill
  BY <1>10, KillKeepsIInv
<1> QED BY <1>1, <1>2, <1>3, <1>4, <1>5, <1>6, <1>7, <1>8, <1>9, <1>10 DEF Next

(* The invariant holds of every reachable state. *)
LEMMA IInvIsInvariant == Spec => []IInv
BY InitIInv, NextIInv, PTL DEF Spec

(***************************************************************************)
(* However many clients connect, leave, set, show, describe and fail, and  *)
(* whatever the capture file does, a client is told its own settings.      *)
(***************************************************************************)
THEOREM ClientsSeeTheirOwnSettings == Spec => []ShowTellsOwnSettings
<1>1. IInv => ShowTellsOwnSettings
  BY DEF IInv
<1> QED BY <1>1, IInvIsInvariant, PTL

(***************************************************************************)
(* The capture file holds what was replied to, for any number of clients   *)
(* that capture at the same time, and only a writer keeps the mutex.       *)
(***************************************************************************)
THEOREM CaptureIsFaithful == Spec => []CaptureHoldsAnswers
<1>1. IInv => CaptureHoldsAnswers
  <2> SUFFICES ASSUME IInv PROVE CaptureHoldsAnswers
    OBVIOUS
  <2>1. \A c \in Connections : saver = c => pc[c] = "saving"
    BY DEF IInv, CaptureInv
  <2>2. saver = None /\ saved => file = replied
    BY SessionConstants DEF IInv, CaptureInv
  <2> QED BY <2>1, <2>2 DEF CaptureHoldsAnswers
<1> QED BY <1>1, IInvIsInvariant, PTL

---------------------------------------------------------------------------
(* Inserts into the shared tables.                                         *)

(* What a scan of a partition with at most one batch returns. *)
LEMMA RowsOfOneBatch ==
  /\ Rows(<<>>) = <<>>
  /\ \A S : \A b \in Seq(S) : Rows(<<b>>) = b
<1>1. Rows(<<>>) = <<>>
  BY DEF Rows, FlattenSeq
<1>2. ASSUME NEW S, NEW b \in Seq(S)
      PROVE  Rows(<<b>>) = b
  <2> DEFINE s == <<b>>
             F(f) == f = [i \in 1 .. Len(s) |-> IF i = 1 THEN s[i] ELSE f[i - 1] \o s[i]]
  <2>1. Len(s) = 1 /\ s[1] = b
    OBVIOUS
  <2>2. F([i \in 1 .. Len(s) |-> b])
    BY <2>1
  <2>3. F(CHOOSE f : F(f))
    <3> HIDE DEF F
    <3> QED BY <2>2
  <2>4. (CHOOSE f : F(f))[Len(s)] = b
    BY <2>1, <2>3
  <2>5. Rows(s) = (CHOOSE f : F(f))[Len(s)]
    BY <2>1 DEF Rows, FlattenSeq
  <2> QED BY <2>4, <2>5
<1> QED BY <1>1, <1>2

RowSeq == Seq(Clients \cup {"loaded"})

(* Types; and a client has an operation exactly while its insert_into runs. *)
InsertTypes ==
  /\ batches \in Seq(RowSeq)
  /\ phase \in [Clients -> {"idle", "collected", "merged"}]
  /\ op \in [Clients -> {"none", "append", "overwrite"}]
  /\ merged \in [Clients -> RowSeq]
  /\ \A c \in Clients : phase[c] = "idle" <=> op[c] = "none"
  /\ inserts \in 0 .. MaxInserts
  /\ serial \in RowSeq
  /\ raced \in BOOLEAN

(***************************************************************************)
(* The inductive invariant.  The partition never holds two batches, which  *)
(* is why an append may read the first only; a client that will overwrite  *)
(* has its own row alone; and until a race has happened, one that will     *)
(* append has read the rows that are still there.                          *)
(***************************************************************************)
OneBatch == Len(batches) <= 1

Overwriting ==
  \A c \in Clients : phase[c] = "merged" /\ op[c] = "overwrite" => merged[c] = <<c>>

Appending ==
  ~raced => \A c \in Clients :
    phase[c] = "merged" /\ op[c] = "append" => merged[c] = Append(Rows(batches), c)

InsertInv ==
  /\ InsertTypes
  /\ OneBatch
  /\ Overwriting
  /\ Appending
  /\ UnracedInsertsAreSerial

(* What the partition holds when it holds at most one batch. *)
LEMMA RowsOfPartition ==
  ASSUME NEW S, NEW p \in Seq(Seq(S)), Len(p) <= 1
  PROVE  /\ p = <<>> => Rows(p) = <<>>
         /\ p # <<>> => Rows(p) = p[1]
         /\ Rows(p) \in Seq(S)
<1>1. CASE p = <<>>
  BY <1>1, RowsOfOneBatch, EmptySeq
<1>2. CASE p # <<>>
  <2>1. Len(p) = 1 /\ p[1] \in Seq(S)
    <3>1. Len(p) \in Nat \ {0}
      BY <1>2, EmptySeq
    <3>2. Len(p) = 1
      <4> DEFINE n == Len(p)
      <4>1. n \in Nat \ {0} /\ n <= 1
        BY <3>1
      <4> HIDE DEF n
      <4>2. n = 1
        BY <4>1
      <4> QED BY <4>2 DEF n
    <3> QED BY <3>2
  <2>2. p = <<p[1]>>
    BY <2>1
  <2> QED BY <1>2, <2>1, <2>2, RowsOfOneBatch
<1> QED BY <1>1, <1>2

(* The rows a table is loaded with. *)
LEMMA LoadedType ==
  /\ Loaded \in Seq(RowSeq) /\ Len(Loaded) <= 1
  /\ Rows(Loaded) \in RowSeq
<1>1. Loaded \in Seq(RowSeq) /\ Len(Loaded) <= 1
  <2>1. \A b \in Seq({"loaded"}) : b \in RowSeq
    BY DEF RowSeq
  <2> QED BY <2>1, TableConstants
<1> QED BY <1>1, RowsOfPartition DEF RowSeq

(* A table that was just loaded satisfies the invariant. *)
LEMMA InsertInitInv == InsertInit => InsertInv
<1> SUFFICES ASSUME InsertInit PROVE InsertInv
  OBVIOUS
<1>1. InsertTypes
  <2>1. <<>> \in RowSeq
    BY EmptySeq DEF RowSeq
  <2>2. inserts \in 0 .. MaxInserts
    BY TableConstants DEF InsertInit
  <2> QED BY <2>1, <2>2, LoadedType DEF InsertInit, InsertTypes
<1> QED BY <1>1, LoadedType DEF InsertInit, InsertInv, OneBatch, Overwriting, Appending,
                                UnracedInsertsAreSerial

(***************************************************************************)
(* Computing the new rows disturbs nothing; an append that reads, reads    *)
(* what is there; and a replacement without a race puts back the rows that *)
(* were there and its own, or its own alone.                               *)
(***************************************************************************)
LEMMA InsertNextInv == InsertInv /\ [InsertNext]_insertVars => InsertInv'
<1> SUFFICES ASSUME InsertInv, [InsertNext]_insertVars PROVE InsertInv'
  OBVIOUS
<1> USE DEF InsertInv
<1>1. /\ Rows(batches) \in RowSeq
      /\ batches = <<>> => Rows(batches) = <<>>
      /\ batches # <<>> => Rows(batches) = batches[1]
  BY RowsOfPartition DEF OneBatch, InsertTypes, RowSeq
<1>2. ASSUME NEW c \in Clients, NEW how \in Operations, Collect(c, how)
      PROVE  InsertInv'
  <2>1. InsertTypes'
    BY <1>2, TableConstants DEF Collect, InsertTypes
  <2> QED BY <1>2, <2>1 DEF Collect, InsertTypes, OneBatch, Overwriting, Appending,
                            UnracedInsertsAreSerial
<1>3. ASSUME NEW c \in Clients, Merge(c)
      PROVE  InsertInv'
  <2>1. merged'[c] = IF op[c] = "overwrite" THEN <<c>> ELSE Append(Rows(batches), c)
    <3>1. batches # <<>> => batches[1] \o <<c>> = Append(batches[1], c)
      BY <1>1, AppendIsConcat DEF RowSeq
    <3>2. batches = <<>> => <<c>> = Append(Rows(batches), c)
      BY <1>1
    <3> QED BY <1>1, <1>3, <3>1, <3>2 DEF Merge, InsertTypes
  <2>2. InsertTypes'
    <3>1. Append(Rows(batches), c) \in RowSeq /\ <<c>> \in RowSeq
      BY <1>1 DEF RowSeq
    <3>2. merged' = [merged EXCEPT ![c] = merged'[c]]
      BY <1>3 DEF Merge, InsertTypes
    <3>3. merged' \in [Clients -> RowSeq]
      BY <2>1, <3>1, <3>2 DEF InsertTypes
    <3> QED BY <1>3, <3>3 DEF Merge, InsertTypes
  <2>3. Overwriting' /\ Appending'
    <3>1. \A d \in Clients \ {c} : phase'[d] = phase[d] /\ merged'[d] = merged[d]
      BY <1>3 DEF Merge, InsertTypes
    <3> QED BY <1>3, <2>1, <3>1 DEF Merge, Overwriting, Appending
  <2> QED BY <1>3, <2>2, <2>3 DEF Merge, OneBatch, UnracedInsertsAreSerial
<1>4. ASSUME NEW c \in Clients, Replace(c)
      PROVE  InsertInv'
  <2>1. /\ merged[c] \in RowSeq
        /\ op[c] \in {"append", "overwrite"}
        /\ batches' = <<merged[c]>>
        /\ Rows(batches') = merged[c]
    BY <1>4, RowsOfOneBatch DEF Replace, InsertTypes, RowSeq
  <2>2. InsertTypes' /\ OneBatch'
    <3>1. serial' \in RowSeq /\ <<>> \in RowSeq
      <4>1. <<>> \in RowSeq /\ <<c>> \in RowSeq /\ Append(serial, c) \in RowSeq
        BY EmptySeq DEF InsertTypes, RowSeq
      <4> QED BY <1>4, <4>1 DEF Replace
    <3>2. raced' \in BOOLEAN
      BY <1>4 DEF Replace
    <3> QED BY <1>4, <2>1, <3>1, <3>2 DEF Replace, InsertTypes, OneBatch
  <2>3. Overwriting'
    BY <1>4 DEF Replace, Overwriting, InsertTypes
  <2>4. Appending'
    BY <1>4 DEF Replace, Appending, InsertTypes
  <2>5. UnracedInsertsAreSerial'
    <3> SUFFICES ASSUME ~raced' PROVE Rows(batches') = serial'
      BY DEF UnracedInsertsAreSerial
    <3>1. ~raced
      BY <1>4 DEF Replace
    <3>2. CASE op[c] = "overwrite"
      BY <1>4, <2>1, <3>2 DEF Replace, Overwriting
    <3>3. CASE op[c] = "append"
      BY <1>4, <2>1, <3>1, <3>3 DEF Replace, Appending, UnracedInsertsAreSerial
    <3> QED BY <2>1, <3>2, <3>3
  <2> QED BY <2>2, <2>3, <2>4, <2>5
<1>5. CASE UNCHANGED insertVars
  BY <1>5 DEF insertVars, InsertTypes, OneBatch, Overwriting, Appending, UnracedInsertsAreSerial
<1> QED BY <1>2, <1>3, <1>4, <1>5 DEF InsertNext

(***************************************************************************)
(* Inserts of any number of clients lose no row and leave none behind as   *)
(* long as no partition is replaced between an append's two locked         *)
(* sections.                                                               *)
(***************************************************************************)
THEOREM UnracedInsertsLoseNothing == InsertSpec => []UnracedInsertsAreSerial
<1>1. InsertInv => UnracedInsertsAreSerial
  BY DEF InsertInv
<1> QED BY <1>1, InsertInitInv, InsertNextInv, PTL DEF InsertSpec
=============================================================================
