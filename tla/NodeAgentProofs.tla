-------------------------- MODULE NodeAgentProofs --------------------------
(***************************************************************************)
(* Proofs about NodeAgent: the shapes of its state, and that a pushed      *)
(* config gets the private key of the node it was rendered for, for any    *)
(* number of panels, keys, tokens and requests.  No fairness is needed.    *)
(*                                                                         *)
(* The agent puts the key it read together with the token into the config  *)
(* it is answered for that token.  The two belong together because a token *)
(* is issued to one key (history variable owner) and because an agent      *)
(* changes its key only when no connect request is on its way.             *)
(*                                                                         *)
(* The second half is about the backup: a call of writeAndApply that was   *)
(* alone and failed has put back the tunnel it found.                      *)
(***************************************************************************)
EXTENDS NodeAgent, TLAPS

\* Of these shapes, and with its key: a config, and a state of the agent.
Keyed == {c \in Config \cup {Nil} : c # Nil => c.for = c.priv}

Owned == {s \in State : s.token # Nil => s.key # Nil /\ owner[s.token] = s.key}

PanelInv ==
    /\ rows \in [Panels -> [Keys -> Row]]
    /\ rev \in [Panels -> Revs]
    /\ owner \in [Tokens -> Keys \cup {Nil}]
    /\ \A p \in Panels, k \in Keys : rows[p][k].token # Nil => owner[rows[p][k].token] = k

CallPcs == {"idle", "enroll", "store", "truncate", "save"}

MemoryInv ==
    /\ mem \in Owned
    /\ file \in [kind : {"absent", "empty", "good", "garbled"}, st : Owned]
    /\ polling \in BOOLEAN
    /\ call \in [Connectors -> [pc : CallPcs, st : Owned]]
    /\ \A c \in Connectors : call[c].pc # "idle" => call[c].st.key = mem.key /\ mem.key # Nil
    /\ \A c \in Connectors : call[c].pc = "enroll" => call[c].st.panel # Nil

LoopInv ==
    /\ loop \in [pc : LoopPcs, st : Owned, config : Keyed]
    /\ loop.pc = "ask" => Connected(loop.st)
    /\ lastApplied \in Keyed

JobShape == [pc : JobPcs, config : Keyed, prior : Config \cup {Nil}]

ApplyInv ==
    /\ job \in [Appliers -> JobShape]
    /\ conf \in Keyed /\ bak \in Keyed /\ tunnel \in Keyed
    /\ drifted \in BOOLEAN

IInv == PanelInv /\ MemoryInv /\ LoopInv /\ ApplyInv

---------------------------------------------------------------------------
(* Facts about the shapes.                                                 *)

\* No state, and a config that is not there, are of the shapes.
LEMMA Nothing == NoState \in Owned /\ Nil \in Keyed
BY DEF NoState, Owned, State, Keyed

\* What has no token is owned by whoever has it.
LEMMA Tokenless == \A s \in State : s.token = Nil => s \in Owned
BY DEF Owned

\* Owned only looks at the history of tokens.
LEMMA SameOwner ==
    ASSUME owner' = owner
    PROVE  Owned' = Owned
BY DEF Owned

\* A step that leaves the history alone, and these variables, keeps what is said of them.
LEMMA MemoryKept ==
    ASSUME MemoryInv, UNCHANGED <<owner, mem, file, polling, call>>
    PROVE  MemoryInv'
BY SameOwner DEF MemoryInv

LEMMA LoopKept ==
    ASSUME LoopInv, UNCHANGED <<owner, loop, lastApplied>>
    PROVE  LoopInv'
BY SameOwner DEF LoopInv, Connected

LEMMA PanelKept ==
    ASSUME PanelInv, UNCHANGED panelVars
    PROVE  PanelInv'
BY DEF PanelInv, panelVars

LEMMA ApplyKept ==
    ASSUME ApplyInv, UNCHANGED applyVars
    PROVE  ApplyInv'
BY DEF ApplyInv, applyVars

\* The poll loop goes to sleep.
LEMMA FallsAsleep ==
    ASSUME LoopInv, owner' = owner, loop' = Asleep, lastApplied' \in Keyed
    PROVE  LoopInv'
<1>1. Asleep \in [pc : LoopPcs, st : Owned, config : Keyed] /\ Asleep.pc # "ask"
  BY Nothing DEF Asleep, LoopPcs
<1> QED
  BY <1>1, SameOwner DEF LoopInv

\* The invariant holds initially.
LEMMA AgentStarts == Init => IInv
<1> SUFFICES ASSUME Init PROVE IInv
  OBVIOUS
<1>1. PanelInv
  BY DEF Init, PanelInv, NoRow, Row
<1>2. MemoryInv
  BY Nothing DEF Init, MemoryInv, NoCall, CallPcs
<1>3. LoopInv
  BY Nothing DEF Init, LoopInv, Asleep, LoopPcs
<1>4. ApplyInv
  BY Nothing DEF Init, ApplyInv, JobShape, NoJob, JobPcs
<1> QED
  BY <1>1, <1>2, <1>3, <1>4 DEF IInv

---------------------------------------------------------------------------
(* The connect form.                                                       *)

\* A new key is only drawn while no request is on its way and there is no token.
LEMMA ConnectKeeps ==
    ASSUME IInv, NEW c \in Connectors, NEW p \in Panels, Connect(c, p)
    PROVE  IInv'
<1>1. PICK k \in Keys : /\ mem.key # Nil => k = mem.key
                        /\ mem' = [mem EXCEPT !.key = k, !.panel = p]
  BY DEF Connect, IInv, MemoryInv, Owned, State
<1>2. k # Nil
  BY AgentAssumption
<1>3. mem \in State /\ (mem.token # Nil => mem.key # Nil /\ owner[mem.token] = mem.key)
  BY DEF IInv, MemoryInv, Owned
<1>4. mem' \in Owned /\ mem'.key = k /\ mem'.panel = p
  BY <1>1, <1>2, <1>3 DEF State, Owned
<1>5. p # Nil
  BY AgentAssumption
<1>6. /\ call' = [call EXCEPT ![c] = [pc |-> "enroll", st |-> mem']]
      /\ UNCHANGED <<panelVars, file, polling, loop, lastApplied, applyVars>>
  BY DEF Connect
<1>7. MemoryInv'
  <2>1. \A d \in Connectors : call[d].pc # "idle" => call[d].st.key = k
    BY <1>1 DEF IInv, MemoryInv
  <2> QED
    BY <1>2, <1>4, <1>5, <1>6, <2>1, SameOwner DEF IInv, MemoryInv, CallPcs, panelVars
<1> QED
  BY <1>6, <1>7, PanelKept, LoopKept, ApplyKept DEF IInv, panelVars

\* The panel issues a token to one key: what was owned stays owned.
LEMMA EnrolmentsOwn ==
    ASSUME PanelInv, NEW p \in Panels, NEW k \in Keys, NEW t \in Tokens, EnrollNode(p, k, t), rev' = rev
    PROVE  PanelInv' /\ Owned \subseteq Owned' /\ owner'[t] = k
<1>1. t # Nil /\ k # Nil
  BY AgentAssumption
<1>2. owner' = [owner EXCEPT ![t] = k] /\ (owner[t] # Nil => owner[t] = k)
  BY <1>1 DEF EnrollNode, PanelInv
<1>3. \A s \in Owned : s \in Owned'
  BY <1>2 DEF Owned, State, PanelInv
<1>4. rows' = [rows EXCEPT ![p][k] = [status |-> IF @.status \in {"none", "rejected"} THEN "pending" ELSE @.status, token |-> t]]
  BY DEF EnrollNode
<1>5. rows' \in [Panels -> [Keys -> Row]]
  BY <1>4 DEF PanelInv, Row
<1>6. \A q \in Panels, x \in Keys : rows'[q][x].token # Nil => owner'[rows'[q][x].token] = x
  <2> SUFFICES ASSUME NEW q \in Panels, NEW x \in Keys, rows'[q][x].token # Nil
               PROVE  owner'[rows'[q][x].token] = x
    OBVIOUS
  <2>1. CASE q = p /\ x = k
    BY <1>2, <1>4, <2>1 DEF PanelInv
  <2>2. CASE ~ (q = p /\ x = k)
    <3>1. rows'[q][x] = rows[q][x]
      BY <1>4, <2>2 DEF PanelInv
    <3>2. rows[q][x].token \in Tokens /\ owner[rows[q][x].token] = x /\ x # Nil
      BY <3>1, AgentAssumption DEF PanelInv, Row
    <3> QED
      BY <1>2, <3>1, <3>2 DEF PanelInv
  <2> QED
    BY <2>1, <2>2
<1> QED
  BY <1>2, <1>3, <1>5, <1>6 DEF PanelInv

\* The answer comes back with the token of the key it was asked for, or is lost.
LEMMA EnrollKeeps ==
    ASSUME IInv, NEW c \in Connectors, Enroll(c) \/ EnrollLost(c)
    PROVE  IInv'
<1>1. UNCHANGED <<rev, mem, file, polling, loop, lastApplied, applyVars>> /\ call[c].pc = "enroll"
  BY DEF Enroll, EnrollLost
<1>2. call[c].st \in Owned /\ call[c].st.panel \in Panels /\ call[c].st.key \in Keys
  <2>1. call[c].st \in Owned /\ call[c].st.key # Nil /\ call[c].st.panel # Nil
    BY <1>1 DEF IInv, MemoryInv
  <2> QED
    BY <2>1 DEF Owned, State
<1>3. CASE UNCHANGED <<rows, owner>> /\ call' = [call EXCEPT ![c] = NoCall]
  <2>1. MemoryInv'
    BY <1>1, <1>3, Nothing, SameOwner DEF IInv, MemoryInv, NoCall, CallPcs
  <2> QED
    BY <1>1, <1>3, <2>1, PanelKept, LoopKept, ApplyKept DEF IInv, panelVars
<1>4. ASSUME NEW t \in Tokens, EnrollNode(call[c].st.panel, call[c].st.key, t),
             call' = [call EXCEPT ![c] = NoCall] \/
             call' = [call EXCEPT ![c] = [pc |-> "store", st |-> [@.st EXCEPT !.token = t]]]
      PROVE  IInv'
  <2>1. PanelInv' /\ Owned \subseteq Owned' /\ owner'[t] = call[c].st.key
    BY <1>1, <1>2, <1>4, EnrolmentsOwn DEF IInv
  <2> DEFINE s == [call[c].st EXCEPT !.token = t]
  <2>2. s \in Owned' /\ s.key = call[c].st.key
    <3>1. call[c].st \in State
      BY <1>2 DEF Owned
    <3>2. s \in State /\ s.token = t /\ s.key = call[c].st.key
      BY <3>1 DEF State
    <3>3. s.key # Nil
      BY <1>2, <3>2, AgentAssumption
    <3> QED
      BY <2>1, <3>2, <3>3 DEF Owned
  <2>3. NoState \in Owned'
    BY <2>1, Nothing
  <2>4. call' \in [Connectors -> [pc : CallPcs, st : Owned']]
    BY <1>4, <2>1, <2>2, <2>3 DEF IInv, MemoryInv, NoCall, CallPcs
  <2>5. MemoryInv'
    <3>1. \A d \in Connectors : call'[d].pc # "idle" =>
             call[d].pc # "idle" /\ call'[d].st.key = call[d].st.key
      <4>1. call'[c].pc = "idle" \/ call'[c] = [pc |-> "store", st |-> s]
        BY <1>4 DEF IInv, MemoryInv, NoCall
      <4>2. \A d \in Connectors \ {c} : call'[d] = call[d]
        BY <1>4 DEF IInv, MemoryInv
      <4> HIDE DEF s
      <4> QED
        BY <1>1, <2>2, <4>1, <4>2
    <3>2. \A d \in Connectors : call'[d].pc = "enroll" => call'[d] = call[d]
      BY <1>4 DEF IInv, MemoryInv, NoCall
    <3> QED
      BY <1>1, <2>1, <2>4, <3>1, <3>2 DEF IInv, MemoryInv
  <2>6. LoopInv'
    BY <1>1, <2>1 DEF IInv, LoopInv, Connected
  <2> QED
    BY <1>1, <2>1, <2>5, <2>6, ApplyKept DEF IInv
<1> QED
  BY <1>3, <1>4 DEF Enroll, EnrollLost

\* What a request stores and saves is owned, since its key is still the agent's.
LEMMA SavesKeep ==
    ASSUME IInv, NEW c \in Connectors,
           StoreToken(c) \/ TruncateEnrolled(c) \/ SaveEnrolled(c) \/ SaveEnrolledFails(c)
    PROVE  IInv'
<1>1. UNCHANGED <<panelVars, loop, lastApplied, applyVars>> /\ owner' = owner
  BY DEF StoreToken, TruncateEnrolled, SaveEnrolled, SaveEnrolledFails, panelVars
<1>2. call[c].st \in Owned /\ (call[c].pc # "idle" => call[c].st.key = mem.key /\ mem.key # Nil)
  BY DEF IInv, MemoryInv
<1>3. CASE StoreToken(c)
  <2>1. mem' = [mem EXCEPT !.token = call[c].st.token] /\ call[c].st.key = mem.key
    BY <1>2, <1>3 DEF StoreToken
  <2>2. mem' \in Owned /\ mem'.key = mem.key
    BY <1>2, <2>1 DEF IInv, MemoryInv, Owned, State
  <2>3. MemoryInv'
    BY <1>1, <1>2, <1>3, <2>2, SameOwner DEF StoreToken, IInv, MemoryInv, CallPcs
  <2> QED
    BY <1>1, <2>3, PanelKept, LoopKept, ApplyKept DEF IInv
<1>4. CASE TruncateEnrolled(c)
  <2>1. MemoryInv'
    BY <1>1, <1>4, Nothing, SameOwner DEF TruncateEnrolled, Truncate, IInv, MemoryInv, CallPcs
  <2> QED
    BY <1>1, <2>1, PanelKept, LoopKept, ApplyKept DEF IInv
<1>5. CASE SaveEnrolled(c) \/ SaveEnrolledFails(c)
  <2>1. /\ mem' = mem /\ call' = [call EXCEPT ![c] = NoCall] /\ polling' \in BOOLEAN
        /\ file' = file \/ Write(call[c].st)
    BY <1>5 DEF SaveEnrolled, SaveEnrolledFails, IInv, MemoryInv
  <2>2. file' \in [kind : {"absent", "empty", "good", "garbled"}, st : Owned]
    BY <1>2, <2>1, Nothing DEF Write, IInv, MemoryInv
  <2>3. MemoryInv'
    BY <1>1, <2>1, <2>2, Nothing, SameOwner DEF IInv, MemoryInv, NoCall, CallPcs
  <2> QED
    BY <1>1, <2>3, PanelKept, LoopKept, ApplyKept DEF IInv
<1> QED
  BY <1>3, <1>4, <1>5

---------------------------------------------------------------------------
(* writeAndApply.                                                          *)

\* A step of a call of writeAndApply only moves configs around.
LEMMA AppliesKeep ==
    ASSUME IInv, NEW a \in Appliers, ApplyStep(a) \/ UpFailsOnce(a) \/ GivesUp(a)
    PROVE  IInv'
<1> USE DEF IInv, ApplyInv
<1>1. UNCHANGED <<panelVars, mem, file, polling, call>> /\ owner' = owner
  BY DEF ApplyStep, Backup, WriteConf, Down, Up, UpFails, Restore, UpAgain, ReportFailure,
         UpFailsOnce, GivesUp, stateVars, panelVars
<1>2. PanelInv' /\ MemoryInv'
  BY <1>1, PanelKept, MemoryKept
<1>3. job[a] \in JobShape
  OBVIOUS
<1>4. CASE Up(a) \/ ReportFailure(a)
  <2>1. LoopInv'
    BY <1>1, <1>3, <1>4, FallsAsleep, LoopKept DEF JobShape, Up, ReportFailure, EndsApply, LoopInv
  <2>2. job' \in [Appliers -> JobShape]
    <3>1. job' = [job EXCEPT ![a] = NoJob]
      BY <1>4 DEF Up, ReportFailure
    <3>2. NoJob \in JobShape
      BY Nothing DEF NoJob, JobShape, JobPcs
    <3> QED
      BY <3>1, <3>2
  <2>3. conf' \in Keyed /\ bak' \in Keyed /\ tunnel' \in Keyed /\ drifted' \in BOOLEAN
    BY <1>4 DEF Up, ReportFailure
  <2> QED
    BY <1>1, <1>2, <2>1, <2>2, <2>3, SameOwner DEF Keyed
<1>5. CASE Backup(a) \/ WriteConf(a) \/ Down(a) \/ UpFails(a) \/ Restore(a) \/ UpAgain(a) \/ GivesUp(a) \/ UpFailsOnce(a)
  <2>1. LoopInv'
    BY <1>1, <1>5, LoopKept
       DEF Backup, WriteConf, Down, UpFails, Restore, UpAgain, GivesUp, UpFailsOnce, stateVars
  <2>2. job' \in [Appliers -> JobShape]
    <3>1. CASE UpFailsOnce(a)
      <4>1. PICK pc \in JobPcs : job' = [job EXCEPT ![a].pc = pc, ![a].prior = Nil]
        BY <3>1 DEF UpFailsOnce, JobPcs
      <4> DEFINE j == [job EXCEPT ![a].pc = pc]
      <4>2. j \in [Appliers -> JobShape]
        BY <1>3 DEF JobShape
      <4>3. job' = [j EXCEPT ![a].prior = Nil]
        BY <4>1
      <4> HIDE DEF j
      <4> QED
        BY <4>2, <4>3 DEF JobShape
    <3>2. CASE ~ UpFailsOnce(a)
      <4>1. PICK pc \in JobPcs : job' = [job EXCEPT ![a].pc = pc]
        BY <1>5, <3>2
           DEF Backup, WriteConf, Down, UpFails, Restore, UpAgain, GivesUp, Goes, JobPcs
      <4> QED
        BY <1>3, <4>1 DEF JobShape
    <3> QED
      BY <3>1, <3>2
  <2>3. conf' \in Keyed /\ bak' \in Keyed /\ tunnel' \in Keyed /\ drifted' \in BOOLEAN
    BY <1>3, <1>5, Nothing
       DEF JobShape, Backup, WriteConf, Down, UpFails, Restore, UpAgain, GivesUp, UpFailsOnce
  <2> QED
    BY <1>1, <1>2, <2>1, <2>2, <2>3 DEF Keyed
<1> QED
  BY <1>4, <1>5 DEF ApplyStep

\* A call begins with a config that has its key; the promises of the others lapse.
LEMMA BeginsKeyed ==
    ASSUME ApplyInv, NEW a \in Appliers, NEW config \in Keyed, Begin(a, config)
    PROVE  job' \in [Appliers -> JobShape]
<1>1. Prior(a) \in Config \cup {Nil}
  BY DEF Prior, ApplyInv, Keyed
<1>2. Meddle(job) \in [Appliers -> JobShape]
  BY DEF Meddle, ApplyInv, JobShape
<1> QED
  BY <1>1, <1>2 DEF Begin, JobShape, JobPcs

\* An edited config is of no panel and names no key.
LEMMA EditKeeps ==
    ASSUME IInv, NEW e \in Editors, NEW r \in Revs, Edit(e, r)
    PROVE  IInv'
<1>1. [panel |-> Nil, rev |-> r, for |-> Nil, priv |-> Nil] \in Keyed
  BY DEF Keyed, Config
<1>2. job' \in [Appliers -> JobShape]
  BY <1>1, BeginsKeyed DEF Edit, IInv, Appliers
<1>3. UNCHANGED <<panelVars, stateVars, conf, bak, tunnel>> /\ drifted' = TRUE /\ owner' = owner
  BY DEF Edit, panelVars
<1>4. ApplyInv'
  BY <1>2, <1>3 DEF IInv, ApplyInv, Keyed
<1> QED
  BY <1>3, <1>4, PanelKept, MemoryKept, LoopKept DEF IInv, stateVars

---------------------------------------------------------------------------
(* The poll loop.                                                          *)

\* The row that is found by a token is the one of the key it was issued to, and that
\* is the key the loop read with it.
LEMMA AnswerHasItsKey ==
    ASSUME PanelInv, LoopInv, PanelAnswers
    PROVE  LoopInv'
<1>1. loop.st \in Owned /\ loop.st.panel \in Panels /\ loop.st.token # Nil
  BY DEF PanelAnswers, LoopAt, LoopInv, Connected, Owned, State
<1>2. PICK k \in RowsOf(loop.st.panel, loop.st.token) :
         loop' = [loop EXCEPT
           !.pc = "use",
           !.config = IF rows[loop.st.panel][k].status = "active"
                      THEN [panel |-> loop.st.panel, rev |-> rev[loop.st.panel],
                            for |-> k, priv |-> loop.st.key]
                      ELSE Nil]
  BY DEF PanelAnswers
<1>3. k \in Keys /\ rows[loop.st.panel][k].token = loop.st.token
  BY DEF RowsOf
<1>4. loop.st.key = k
  BY <1>1, <1>3 DEF PanelInv, Owned
<1>5. [panel |-> loop.st.panel, rev |-> rev[loop.st.panel], for |-> k, priv |-> loop.st.key] \in Keyed
  BY <1>1, <1>3, <1>4 DEF Keyed, Config, PanelInv
<1>6. loop' \in [pc : LoopPcs, st : Owned, config : Keyed] /\ loop'.pc = "use"
  BY <1>1, <1>2, <1>5, Nothing DEF LoopInv, LoopPcs
<1>7. lastApplied' = lastApplied /\ owner' = owner
  BY DEF PanelAnswers, panelVars
<1> QED
  BY <1>6, <1>7, SameOwner DEF LoopInv, Keyed

\* The loop moves on to a place that asks for nothing.
LEMMA LoopGoes ==
    ASSUME LoopInv, owner' = owner, lastApplied' = lastApplied,
           NEW pc \in LoopPcs \ {"ask"}, NEW s \in Owned, loop' = [loop EXCEPT !.pc = pc, !.st = s]
    PROVE  LoopInv'
BY SameOwner DEF LoopInv, Keyed

\* Every step of the loop keeps the invariant.
LEMMA LoopKeeps ==
    ASSUME IInv, LoopStep \/ PanelLookupFails \/ PollFails
    PROVE  IInv'
<1> USE DEF IInv
<1>1. UNCHANGED <<panelVars, polling, call>> /\ owner' = owner
  BY DEF LoopStep, Wake, PanelAnswers, PanelForgot, NothingNew, ApplyPushed, TearDown, RemoveConf,
         Reset, TruncateReset, SaveReset, PanelLookupFails, PollFails, panelVars
<1>2. loop.st \in Owned /\ loop = [loop EXCEPT !.st = loop.st]
  BY DEF LoopInv
<1>3. PanelInv'
  BY <1>1, PanelKept
<1>4. CASE Wake
  <2>1. loop' = [Asleep EXCEPT !.pc = "ask", !.st = mem] /\ Connected(mem)
    BY <1>4 DEF Wake
  <2>2. loop' \in [pc : LoopPcs, st : Owned, config : Keyed] /\ loop'.st = mem
    BY <2>1, Nothing DEF Asleep, LoopPcs, MemoryInv
  <2>3. LoopInv'
    BY <1>1, <1>4, <2>1, <2>2, SameOwner DEF Wake, LoopInv, Connected, Keyed
  <2> QED
    BY <1>1, <1>3, <1>4, <2>3, MemoryKept, ApplyKept DEF Wake
<1>5. CASE PanelAnswers
  BY <1>1, <1>3, <1>5, AnswerHasItsKey, MemoryKept, ApplyKept DEF PanelAnswers
<1>6. CASE PanelForgot \/ PanelLookupFails
  <2>1. LoopInv'
    BY <1>1, <1>2, <1>6, SameOwner DEF PanelForgot, PanelLookupFails, LoopInv, LoopPcs, Keyed
  <2> QED
    BY <1>1, <1>3, <1>6, <2>1, MemoryKept, ApplyKept DEF PanelForgot, PanelLookupFails
<1>7. CASE NothingNew \/ PollFails
  <2>1. LoopInv'
    BY <1>1, <1>7, FallsAsleep DEF NothingNew, PollFails, LoopInv
  <2> QED
    BY <1>1, <1>3, <1>7, <2>1, MemoryKept, ApplyKept DEF NothingNew, PollFails
<1>8. CASE ApplyPushed
  <2>1. LoopInv'
    BY <1>1, <1>2, <1>8, SameOwner DEF ApplyPushed, LoopInv, LoopPcs, Keyed
  <2>2. job' \in [Appliers -> JobShape]
    BY <1>8, BeginsKeyed DEF ApplyPushed, Appliers, LoopInv
  <2>3. ApplyInv'
    BY <1>8, <2>2 DEF ApplyPushed, ApplyInv, Keyed
  <2> QED
    BY <1>1, <1>3, <1>8, <2>1, <2>3, MemoryKept DEF ApplyPushed
<1>9. CASE TearDown \/ RemoveConf
  <2>1. LoopInv'
    BY <1>1, <1>2, <1>9, SameOwner DEF TearDown, RemoveConf, LoopInv, LoopPcs, Keyed
  <2>2. ApplyInv'
    BY <1>9, Nothing DEF TearDown, RemoveConf, Meddle, ApplyInv, JobShape, Keyed
  <2> QED
    BY <1>1, <1>3, <1>9, <2>1, <2>2, MemoryKept DEF TearDown, RemoveConf
<1>10. CASE Reset
  <2>1. mem' = [mem EXCEPT !.token = Nil, !.panel = Nil] /\ file' = file
    BY <1>10 DEF Reset
  <2>2. mem' \in Owned /\ mem'.key = mem.key
    BY <2>1 DEF MemoryInv, Owned, State
  <2>3. MemoryInv'
    BY <1>1, <2>1, <2>2, SameOwner DEF MemoryInv
  <2>4. LoopInv'
    BY <1>1, <1>10, <2>2, LoopGoes DEF Reset, LoopPcs
  <2> QED
    BY <1>1, <1>3, <1>10, <2>3, <2>4, ApplyKept DEF Reset
<1>11. CASE TruncateReset
  <2>1. MemoryInv'
    BY <1>1, <1>11, Nothing, SameOwner DEF TruncateReset, Truncate, MemoryInv
  <2>2. LoopInv'
    BY <1>1, <1>2, <1>11, SameOwner DEF TruncateReset, LoopInv, LoopPcs, Keyed
  <2> QED
    BY <1>1, <1>3, <1>11, <2>1, <2>2, ApplyKept DEF TruncateReset
<1>12. CASE SaveReset
  <2>1. file' \in [kind : {"absent", "empty", "good", "garbled"}, st : Owned]
    BY <1>2, <1>12, Nothing DEF SaveReset, Write, MemoryInv
  <2>2. MemoryInv'
    BY <1>1, <1>12, <2>1, SameOwner DEF SaveReset, MemoryInv
  <2>3. LoopInv'
    BY <1>1, <1>12, Nothing, FallsAsleep DEF SaveReset
  <2> QED
    BY <1>1, <1>3, <1>12, <2>2, <2>3, ApplyKept DEF SaveReset
<1> QED
  BY <1>4, <1>5, <1>6, <1>7, <1>8, <1>9, <1>10, <1>11, <1>12 DEF LoopStep

---------------------------------------------------------------------------
(* The panel's admin, and the process.                                     *)

\* Statuses change, rows are deleted and their tokens with them.
LEMMA AdminKeeps ==
    ASSUME IInv, AdminStep
    PROVE  IInv'
<1> USE DEF IInv
<1>1. UNCHANGED <<stateVars, applyVars>> /\ owner' = owner
  BY DEF AdminStep, SetStatus, DeleteNode, MeshChanges
<1>2. PanelInv'
  <2>1. ASSUME NEW p \in Panels, NEW k \in Keys, NEW s \in {"active", "rejected"}, SetStatus(p, k, s)
        PROVE  PanelInv'
    <3>1. rows' = [rows EXCEPT ![p][k].status = s] /\ UNCHANGED <<rev, owner>>
      BY <2>1 DEF SetStatus
    <3>2. rows' \in [Panels -> [Keys -> Row]]
      BY <3>1 DEF PanelInv, Row
    <3>3. \A q \in Panels, x \in Keys : rows'[q][x].token = rows[q][x].token
      BY <3>1 DEF PanelInv, Row
    <3> QED
      BY <3>1, <3>2, <3>3 DEF PanelInv
  <2>2. ASSUME NEW p \in Panels, NEW k \in Keys, DeleteNode(p, k) PROVE PanelInv'
    <3>1. rows' = [rows EXCEPT ![p][k] = NoRow] /\ UNCHANGED <<rev, owner>>
      BY <2>2 DEF DeleteNode
    <3>2. rows' \in [Panels -> [Keys -> Row]]
      BY <3>1 DEF PanelInv, Row, NoRow
    <3>3. \A q \in Panels, x \in Keys : rows'[q][x] \in {NoRow, rows[q][x]}
      BY <3>1 DEF PanelInv
    <3> QED
      BY <3>1, <3>2, <3>3 DEF PanelInv, NoRow
  <2>3. ASSUME NEW p \in Panels, NEW r \in Revs, MeshChanges(p, r) PROVE PanelInv'
    BY <2>3 DEF MeshChanges, PanelInv
  <2> QED
    BY <2>1, <2>2, <2>3 DEF AdminStep
<1> QED
  BY <1>1, <1>2, MemoryKept, LoopKept, ApplyKept DEF stateVars

\* What is loaded is what was saved: an enrolment with its key, or nothing.
LEMMA RestartKeeps ==
    ASSUME IInv, Restart
    PROVE  IInv'
<1> USE DEF IInv
<1>1. UNCHANGED <<panelVars, file, conf, bak, drifted>> /\ owner' = owner
  BY DEF Restart, panelVars
<1>2. Loaded \in Owned
  BY Nothing DEF Loaded, MemoryInv
<1>3. MemoryInv'
  BY <1>1, <1>2, Nothing, SameOwner DEF Restart, MemoryInv, NoCall, CallPcs, Connected
<1>4. LoopInv'
  BY <1>1, Nothing, FallsAsleep DEF Restart
<1>5. ApplyInv'
  BY <1>1, Nothing DEF Restart, ApplyInv, JobShape, NoJob, JobPcs, Keyed
<1> QED
  BY <1>1, <1>3, <1>4, <1>5, PanelKept

---------------------------------------------------------------------------
\* Every step of the specification keeps the invariant.
LEMMA AgentInduction ==
    ASSUME IInv, [Next]_vars
    PROVE  IInv'
<1>1. CASE UNCHANGED vars
  BY <1>1, PanelKept, MemoryKept, LoopKept, ApplyKept DEF vars, panelVars, stateVars, IInv
<1>2. CASE LoopStep \/ PanelLookupFails \/ PollFails
  BY <1>2, LoopKeeps
<1>3. ASSUME NEW c \in Connectors,
             ConnectStep(c) \/ (\E p \in Panels : Connect(c, p)) \/ EnrollLost(c) \/ SaveEnrolledFails(c)
      PROVE  IInv'
  BY <1>3, ConnectKeeps, EnrollKeeps, SavesKeep DEF ConnectStep
<1>4. ASSUME NEW a \in Appliers, ApplyStep(a) \/ UpFailsOnce(a) \/ GivesUp(a) PROVE IInv'
  BY <1>4, AppliesKeep
<1>5. ASSUME NEW e \in Editors, NEW r \in Revs, Edit(e, r) PROVE IInv'
  BY <1>5, EditKeeps
<1>6. CASE AdminStep \/ Restart
  BY <1>6, AdminKeeps, RestartKeeps
<1> QED
  BY <1>1, <1>2, <1>3, <1>4, <1>5, <1>6 DEF Next, Disturbance

\* It holds throughout every behaviour.
LEMMA AgentInvariant == Spec => []IInv
BY AgentStarts, AgentInduction, PTL DEF Spec

\* The rows, the agent's memory and file, its calls and configs have their shapes.
THEOREM AgentTypeCorrect == Spec => []TypeOK
<1>1. IInv => TypeOK
  BY DEF IInv, PanelInv, MemoryInv, LoopInv, ApplyInv, JobShape, TypeOK, Owned, Keyed, FileShape, CallPcs
<1> QED
  BY <1>1, AgentInvariant, PTL

\* Whatever is lost, reset or restarted while an enrolment or a poll is on its way, no
\* config that a panel pushed gets the private key of another node.
THEOREM PushedKeyMatches == Spec => []PushedConfigHasItsKey
<1>1. IInv => PushedConfigHasItsKey
  BY DEF IInv, LoopInv, ApplyInv, JobShape, PushedConfigHasItsKey, Keyed
<1> QED
  BY <1>1, AgentInvariant, PTL

---------------------------------------------------------------------------
(* The backup.                                                             *)

\* What stands while a call of writeAndApply may promise the tunnel it found: it is
\* alone, and that tunnel's config is up, or else in the backup and able to come up.
Standing(a) ==
    /\ Applying(a)
    /\ \A b \in Appliers \ {a} : ~ Applying(b)
    /\ job[a].prior.rev \notin Bad
    /\ job[a].pc \in {"backup", "write", "down", "failed"} => tunnel = job[a].prior
    /\ job[a].pc \in {"up", "restore", "again"} => tunnel = Nil
    /\ job[a].pc \in {"backup", "again"} => conf = job[a].prior
    /\ job[a].pc \in {"write", "down", "up", "restore", "again"} => bak = job[a].prior

\* A tunnel that is up is one that can come up.
Works(t) == t # Nil => t.rev \notin Bad

BackupInv ==
    /\ Works(tunnel)
    /\ \A a \in Appliers : job[a].prior # Nil => Standing(a)

\* A call takes its own steps while it stands, and no other call stands then.
LEMMA StepStands ==
    ASSUME IInv, BackupInv, NEW a \in Appliers, ApplyStep(a) \/ UpFailsOnce(a) \/ GivesUp(a)
    PROVE  BackupInv'
<1>1. job \in [Appliers -> JobShape]
  BY DEF IInv, ApplyInv
<1>2. Applying(a)
  BY DEF Applying, ApplyStep, Backup, WriteConf, Down, Up, UpFails, Restore, UpAgain, ReportFailure,
         UpFailsOnce, GivesUp
<1>3. \A b \in Appliers \ {a} : job[b].prior = Nil
  BY <1>2 DEF BackupInv, Standing
<1>4. \A b \in Appliers \ {a} : job'[b] = job[b]
  BY <1>1 DEF ApplyStep, Backup, WriteConf, Down, Up, UpFails, Restore, UpAgain, ReportFailure,
         UpFailsOnce, GivesUp, Goes
<1>5. Works(tunnel')
  BY DEF BackupInv, Works, ApplyStep, Backup, WriteConf, Down, Up, UpFails, Restore, UpAgain,
         ReportFailure, UpFailsOnce, GivesUp, ComesUp
<1>6. job'[a].prior # Nil => Standing(a)'
  <2>1. CASE Up(a) \/ ReportFailure(a) \/ UpFailsOnce(a)
    <3>1. CASE UpFailsOnce(a)
      <4> PICK pc : job' = [job EXCEPT ![a].pc = pc, ![a].prior = Nil]
        BY <3>1 DEF UpFailsOnce
      <4> DEFINE j == [job EXCEPT ![a].pc = pc]
      <4>1. a \in DOMAIN j /\ DOMAIN j[a] = {"pc", "config", "prior"}
        BY <1>1 DEF JobShape
      <4>2. job' = [j EXCEPT ![a].prior = Nil]
        OBVIOUS
      <4> HIDE DEF j
      <4>3. job'[a].prior = Nil
        BY <4>1, <4>2
      <4> QED
        BY <4>3
    <3>2. CASE Up(a) \/ ReportFailure(a)
      <4>1. job' = [job EXCEPT ![a] = NoJob]
        BY <3>2 DEF Up, ReportFailure
      <4>2. job'[a] = NoJob
        BY <1>1, <4>1
      <4> QED
        BY <4>2 DEF NoJob
    <3> QED
      BY <2>1, <3>1, <3>2
  <2>2. CASE Backup(a) \/ WriteConf(a) \/ Down(a) \/ UpFails(a) \/ Restore(a) \/ UpAgain(a) \/ GivesUp(a)
    <3>1. PICK pc \in JobPcs \ {"idle"} : Goes(a, pc)
      BY <2>2 DEF Backup, WriteConf, Down, UpFails, Restore, UpAgain, GivesUp, JobPcs
    <3>2. job'[a].pc = pc /\ job'[a].prior = job[a].prior
      BY <1>1, <3>1 DEF Goes, JobShape
    <3> SUFFICES ASSUME job[a].prior # Nil PROVE Standing(a)'
      BY <3>2
    <3>3. Standing(a)
      BY DEF BackupInv
    <3>4. \A b \in Appliers \ {a} : ~ Applying(b)'
      BY <1>4, <3>3 DEF Standing, Applying
    <3>5. Applying(a)' /\ job'[a].prior.rev \notin Bad
      BY <3>1, <3>2, <3>3 DEF Standing, Applying
    <3>6. /\ pc \in {"backup", "write", "down", "failed"} => tunnel' = job[a].prior
          /\ pc \in {"up", "restore", "again"} => tunnel' = Nil
          /\ pc \in {"backup", "again"} => conf' = job[a].prior
          /\ pc \in {"write", "down", "up", "restore", "again"} => bak' = job[a].prior
      <4>1. \/ job[a].pc = "backup"  /\ Backup(a)    /\ pc = "write"
            \/ job[a].pc = "write"   /\ WriteConf(a) /\ pc = "down"
            \/ job[a].pc = "write"   /\ GivesUp(a)   /\ pc = "failed"
            \/ job[a].pc = "down"    /\ Down(a)      /\ pc = "up"
            \/ job[a].pc = "up"      /\ UpFails(a)   /\ pc = "restore"
            \/ job[a].pc = "restore" /\ Restore(a)   /\ pc \in {"again", "failed"}
            \/ job[a].pc = "again"   /\ UpAgain(a)   /\ pc = "failed"
        <5>1. job'[a].pc = pc
          BY <3>2
        <5> QED
          BY <1>1, <2>2, <5>1
             DEF Backup, WriteConf, Down, UpFails, Restore, UpAgain, GivesUp, Goes, JobShape
      <4>2. Restore(a) => pc = "again"
        <5>1. Restore(a) => bak # Nil
          BY <3>3 DEF Restore, Standing
        <5> QED
          BY <1>1, <3>2, <5>1 DEF Restore, Goes, JobShape
      <4> QED
        BY <3>3, <4>1, <4>2
           DEF Standing, Backup, WriteConf, GivesUp, Down, UpFails, Restore, UpAgain, ComesUp
    <3> QED
      BY <3>2, <3>4, <3>5, <3>6 DEF Standing
  <2> QED
    BY <2>1, <2>2 DEF ApplyStep
<1> QED
  BY <1>3, <1>4, <1>5, <1>6 DEF BackupInv

\* A call that begins alone stands; when it begins beside another, none does.
LEMMA BeginStands ==
    ASSUME IInv, BackupInv, NEW a \in Appliers, NEW config, Begin(a, config),
           UNCHANGED <<conf, bak, tunnel>>
    PROVE  BackupInv'
<1>1. job \in [Appliers -> JobShape]
  BY DEF IInv, ApplyInv
<1>2. /\ job'[a].pc = "backup" /\ job'[a].prior = Prior(a)
      /\ \A b \in Appliers \ {a} : job'[b].prior = Nil /\ job'[b].pc = job[b].pc
  BY <1>1 DEF Begin, Meddle, JobShape
<1>3. Prior(a) # Nil => Standing(a)'
  BY <1>2 DEF Prior, Standing, Applying, BackupInv, Works
<1> QED
  BY <1>2, <1>3 DEF BackupInv

\* Nothing is promised after a teardown has meddled, or after a restart.
LEMMA NothingStands ==
    ASSUME IInv, BackupInv, tunnel' \in {tunnel, Nil},
           job' = Meddle(job) \/ job' = [a \in Appliers |-> NoJob]
    PROVE  BackupInv'
<1>1. \A a \in Appliers : job'[a].prior = Nil
  <2>1. CASE job' = [a \in Appliers |-> NoJob]
    BY <2>1 DEF NoJob
  <2>2. CASE job' = Meddle(job)
    BY <2>2 DEF Meddle, IInv, ApplyInv, JobShape
  <2> QED
    BY <2>1, <2>2
<1> QED
  BY <1>1 DEF BackupInv, Works

\* Every step keeps what stands.
LEMMA BackupInduction ==
    ASSUME IInv, BackupInv, [Next]_vars
    PROVE  BackupInv'
<1>1. CASE UNCHANGED applyVars
  BY <1>1 DEF applyVars, BackupInv, Standing, Applying
<1>2. ASSUME NEW a \in Appliers, ApplyStep(a) \/ UpFailsOnce(a) \/ GivesUp(a) PROVE BackupInv'
  BY <1>2, StepStands
<1>3. ASSUME NEW e \in Editors, NEW r \in Revs, Edit(e, r) PROVE BackupInv'
  BY <1>3, BeginStands DEF Edit, Appliers
<1>4. CASE ApplyPushed
  BY <1>4, BeginStands DEF ApplyPushed, Appliers
<1>5. CASE TearDown \/ RemoveConf \/ Restart
  BY <1>5, NothingStands DEF TearDown, RemoveConf, Restart
<1>6. ASSUME NEW c \in Connectors,
             ConnectStep(c) \/ (\E p \in Panels : Connect(c, p)) \/ EnrollLost(c) \/ SaveEnrolledFails(c)
      PROVE  UNCHANGED applyVars
  BY <1>6 DEF ConnectStep, Enroll, StoreToken, TruncateEnrolled, SaveEnrolled, Connect, EnrollLost,
              SaveEnrolledFails
<1>7. CASE \/ Wake \/ PanelAnswers \/ PanelForgot \/ NothingNew \/ Reset \/ TruncateReset
           \/ SaveReset \/ PanelLookupFails \/ PollFails
  BY <1>1, <1>7 DEF Wake, PanelAnswers, PanelForgot, NothingNew, Reset, TruncateReset, SaveReset,
                    PanelLookupFails, PollFails
<1>8. CASE AdminStep
  BY <1>1, <1>8 DEF AdminStep, SetStatus, DeleteNode, MeshChanges
<1>9. CASE UNCHANGED vars
  BY <1>1, <1>9 DEF vars
<1> QED
  BY <1>1, <1>2, <1>3, <1>4, <1>5, <1>6, <1>7, <1>8, <1>9 DEF Next, Disturbance, LoopStep

\* A call of writeAndApply that fails has put back the tunnel it found, if it was the
\* only one to touch it: the backup is that tunnel's config until it is up again.
THEOREM FailureKeepsTunnel == Spec => []FailedPushKeepsTunnel
<1>1. Init => BackupInv
  BY DEF Init, BackupInv, Works, NoJob
<1>2. IInv /\ BackupInv => FailedPushKeepsTunnel
  BY DEF BackupInv, Standing, FailedPushKeepsTunnel
<1> QED
  BY <1>1, <1>2, BackupInduction, AgentInvariant, PTL DEF Spec
=============================================================================
