----------------------------- MODULE NodeAgent -----------------------------
(***************************************************************************)
(* The agent of a home server (cmd/nodeagent): it enrols with a panel,     *)
(* polls it for the node's status and config, applies what it is pushed    *)
(* and tears everything down when the panel no longer knows its token.     *)
(*                                                                         *)
(* The agent's mutex guards only its memory.  HTTP calls, the state file,  *)
(* the config file, its backup and awg-quick are outside of it, so the     *)
(* poll loop, connect requests and edits in the node's own web UI          *)
(* interleave between any two of these.  The process may die at any point. *)
(*                                                                         *)
(* Of the panel (NodeRegistry has it in full) only the rows of this home   *)
(* server are here, one commit at a time, and the config it renders for    *)
(* them.  Self-updates are left out: what they do to this state is a       *)
(* Restart.                                                                *)
(***************************************************************************)
EXTENDS FiniteSets

CONSTANTS
    Panels,     \* panel addresses an operator connects to
    Keys,       \* keypairs GenerateKeypair returns, each at most once
    Tokens,     \* enrolment tokens the panels draw, each at most once
    Revs,       \* what a config can say about the mesh
    Bad,        \* the ones that awg-quick cannot bring up
    Connectors, \* requests of the connect form in flight
    Editors,    \* requests of the config editor in flight
    Poller,     \* the poll loop
    Nil         \* Go's "" and a file or interface that is not there

ASSUME AgentAssumption ==
    /\ Bad \subseteq Revs
    /\ Poller \notin Editors
    /\ Nil \notin Panels \cup Keys \cup Tokens \cup Revs

VARIABLES
    rows,        \* per panel and key: the row of the table nodes
    rev,         \* what each panel renders for its row now
    owner,       \* history: the key each token was issued to
    mem,         \* a.st
    file,        \* the state file
    polling,     \* a.polling
    loop,        \* the poll loop
    lastApplied, \* its variable of that name
    call,        \* the connect requests
    job,         \* the calls of writeAndApply
    conf, bak,   \* the config file and its backup
    tunnel,      \* the config of the interface that is up
    drifted      \* history: an edit began, an apply gave up before the interface, or a
                 \* backup did not come up, and no pushed config has replaced it since

panelVars == <<rows, rev, owner>>
stateVars == <<mem, file, polling, loop, lastApplied, call>>
applyVars == <<job, conf, bak, tunnel, drifted>>
vars == <<panelVars, stateVars, applyVars>>

---------------------------------------------------------------------------
(* Shapes.                                                                 *)

State == [key : Keys \cup {Nil}, token : Tokens \cup {Nil}, panel : Panels \cup {Nil}]

NoState == [key |-> Nil, token |-> Nil, panel |-> Nil]

\* A pushed config names the key of the row it was rendered for and carries the
\* private key the agent put in; an edited one is of no panel.
Config == [panel : Panels \cup {Nil}, rev : Revs, for : Keys \cup {Nil}, priv : Keys \cup {Nil}]

Row == [status : {"none", "pending", "active", "rejected"}, token : Tokens \cup {Nil}]

NoRow == [status |-> "none", token |-> Nil]

Appliers == Editors \cup {Poller}

NoJob == [pc |-> "idle", config |-> Nil, prior |-> Nil]

NoCall == [pc |-> "idle", st |-> NoState]

Asleep == [pc |-> "sleep", st |-> NoState, config |-> Nil]

\* loadState: a file that is missing, truncated or garbled is an error.
Loaded == IF file.kind = "good" THEN file.st ELSE NoState

Connected(st) == st.panel # Nil /\ st.token # Nil

Init ==
    /\ rows = [p \in Panels |-> [k \in Keys |-> NoRow]]
    /\ rev \in [Panels -> Revs]
    /\ owner = [t \in Tokens |-> Nil]
    /\ mem = NoState
    /\ file = [kind |-> "absent", st |-> NoState]
    /\ polling = FALSE
    /\ loop = Asleep
    /\ lastApplied = Nil
    /\ call = [c \in Connectors |-> NoCall]
    /\ job = [a \in Appliers |-> NoJob]
    /\ conf = Nil /\ bak = Nil /\ tunnel = Nil
    /\ drifted = FALSE

---------------------------------------------------------------------------
(* saveState: os.WriteFile truncates the file, then writes it.             *)

Truncate == file' = [kind |-> "empty", st |-> NoState]

WriteTokenOnly(st) == file' = [kind |-> "good", st |-> st.token]

\* Another writer may have come in between; then whether a tail of its text
\* remains depends on which of the two was longer.
Write(st) ==
    \/ file' = [kind |-> "good", st |-> st]
    \/ file.kind # "empty" /\ file' = [kind |-> "garbled", st |-> NoState]

---------------------------------------------------------------------------
(* The connect form.                                                       *)

\* The agent keeps its keypair for life; the panel address is set at once, with
\* whatever token is there.
Connect(c, p) ==
    /\ call[c].pc = "idle"
    /\ \E k \in IF mem.key # Nil THEN {mem.key}
                ELSE {x \in Keys : \A q \in Panels : rows[q][x] = NoRow} :
         /\ \A t \in Tokens : mem.key = Nil => owner[t] # k
         /\ mem' = [mem EXCEPT !.key = k, !.panel = p]
    /\ call' = [call EXCEPT ![c] = [pc |-> "enroll", st |-> mem']]
    /\ UNCHANGED <<panelVars, file, polling, loop, lastApplied, applyVars>>

\* handleEnroll and EnrollNode: a known key gets its row's token back, and one that
\* was rejected is pending again.  A new key enrols beside an old row once the admin
\* has renamed that one; before, nodes.name makes it fail (EnrollLost).
EnrollNode(p, k, t) ==
    /\ IF rows[p][k].status = "none" THEN owner[t] = Nil ELSE t = rows[p][k].token
    /\ owner' = [owner EXCEPT ![t] = k]
    /\ rows' = [rows EXCEPT ![p][k] =
                  [status |-> IF @.status \in {"none", "rejected"} THEN "pending" ELSE @.status,
                   token  |-> t]]

Enroll(c) ==
    /\ call[c].pc = "enroll"
    /\ \E t \in Tokens :
         /\ EnrollNode(call[c].st.panel, call[c].st.key, t)
         /\ call' = [call EXCEPT ![c] = [pc |-> "store", st |-> [@.st EXCEPT !.token = t]]]
    /\ UNCHANGED <<rev, mem, file, polling, loop, lastApplied, applyVars>>

\* The panel refuses, or its answer is lost after it has committed or before: 502.
EnrollLost(c) ==
    /\ call[c].pc = "enroll"
    /\ \/ \E t \in Tokens : EnrollNode(call[c].st.panel, call[c].st.key, t)
       \/ UNCHANGED <<rows, owner>>
    /\ call' = [call EXCEPT ![c] = NoCall]
    /\ UNCHANGED <<rev, mem, file, polling, loop, lastApplied, applyVars>>

\* The token goes into whatever a.st is by now; what is saved is a copy of that.
StoreToken(c) ==
    /\ call[c].pc = "store"
    /\ mem' = [mem EXCEPT !.token = call[c].st.token]
    /\ call' = [call EXCEPT ![c] = [pc |-> "truncate", st |-> mem']]
    /\ UNCHANGED <<panelVars, file, polling, loop, lastApplied, applyVars>>

TruncateEnrolled(c) ==
    /\ call[c].pc = "truncate"
    /\ Truncate
    /\ call' = [call EXCEPT ![c].pc = "save"]
    /\ UNCHANGED <<panelVars, mem, polling, loop, lastApplied, applyVars>>

\* Saved: startPolling starts the loop unless it was started before.
SaveEnrolled(c) ==
    /\ call[c].pc = "save"
    /\ Write(call[c].st)
    /\ polling' = TRUE
    /\ call' = [call EXCEPT ![c] = NoCall]
    /\ UNCHANGED <<panelVars, mem, loop, lastApplied, applyVars>>

\* The disk is full: 502, and no polling is started.
SaveEnrolledFails(c) ==
    /\ call[c].pc \in {"truncate", "save"}
    /\ call' = [call EXCEPT ![c] = NoCall]
    /\ UNCHANGED <<panelVars, mem, file, polling, loop, lastApplied, applyVars>>

---------------------------------------------------------------------------
(* writeAndApply, by the poll loop and by edits.                           *)

Applying(a) == job[a].pc # "idle"

\* A call that is alone, with the file of the tunnel that is up, is to keep it.
Prior(a) ==
    IF tunnel = conf /\ \A b \in Appliers \ {a} : ~ Applying(b) THEN tunnel ELSE Nil

\* What another call or a teardown meddles with is not promised any more.
Meddle(jobs) == [b \in Appliers |-> [jobs[b] EXCEPT !.prior = Nil]]

Begin(a, config) ==
    job' = [Meddle(job) EXCEPT ![a] = [pc |-> "backup", config |-> config, prior |-> Prior(a)]]

Goes(a, pc) == job' = [job EXCEPT ![a].pc = pc]

\* An existing config is copied, errors ignored.
Backup(a) ==
    /\ job[a].pc = "backup"
    /\ bak' = IF conf # Nil THEN conf ELSE bak
    /\ Goes(a, "write")
    /\ UNCHANGED <<panelVars, stateVars, conf, tunnel, drifted>>

WriteConf(a) ==
    /\ job[a].pc = "write"
    /\ conf' = job[a].config
    /\ Goes(a, "down")
    /\ UNCHANGED <<panelVars, stateVars, bak, tunnel, drifted>>

\* The file cannot be written, or awg-quick is missing: the interface stays.
GivesUp(a) ==
    /\ job[a].pc = "write"
    /\ conf' \in {conf, job[a].config}
    /\ Goes(a, "failed")
    /\ drifted' = TRUE
    /\ UNCHANGED <<panelVars, stateVars, bak, tunnel>>

Down(a) ==
    /\ job[a].pc = "down"
    /\ tunnel' = Nil
    /\ Goes(a, "up")
    /\ UNCHANGED <<panelVars, stateVars, conf, bak, drifted>>

\* awg-quick up: there must be a config that works, and no interface yet.
ComesUp == tunnel = Nil /\ conf # Nil /\ conf.rev \notin Bad

\* What an apply that ends means to the poll loop.
EndsApply(a, ok) ==
    IF a = Poller
    THEN /\ loop' = Asleep
         /\ lastApplied' = IF ok THEN job[a].config ELSE lastApplied
    ELSE UNCHANGED <<loop, lastApplied>>

\* A pushed config comes up, with no edit on its way to replace it in turn.
Replaces(a) == a = Poller /\ conf = job[a].config /\ \A e \in Editors : ~ Applying(e)

Up(a) ==
    /\ job[a].pc = "up"
    /\ ComesUp
    /\ tunnel' = conf
    /\ job' = [job EXCEPT ![a] = NoJob]
    /\ EndsApply(a, TRUE)
    /\ drifted' = (drifted /\ ~ Replaces(a))
    /\ UNCHANGED <<panelVars, mem, file, polling, call, conf, bak>>

UpFails(a) ==
    /\ job[a].pc = "up"
    /\ ~ ComesUp
    /\ Goes(a, "restore")
    /\ UNCHANGED <<panelVars, stateVars, conf, bak, tunnel, drifted>>

\* One that works fails all the same (its endpoint does not resolve, say).
UpFailsOnce(a) ==
    /\ job[a].pc \in {"up", "again"}
    /\ ComesUp
    /\ job' = [job EXCEPT ![a].pc = IF @ = "up" THEN "restore" ELSE "failed", ![a].prior = Nil]
    /\ drifted' = (drifted \/ job[a].pc = "again")
    /\ UNCHANGED <<panelVars, stateVars, conf, bak, tunnel>>

RestoreNothing(a) ==
    /\ job[a].pc = "restore"
    /\ Goes(a, IF bak # Nil THEN "again" ELSE "failed")
    /\ UNCHANGED <<panelVars, stateVars, conf, bak, tunnel, drifted>>

\* Back to the backup; without one the config that does not work stays.
Restore(a) ==
    /\ job[a].pc = "restore"
    /\ conf' = IF bak # Nil THEN bak ELSE conf
    /\ Goes(a, IF bak # Nil THEN "again" ELSE "failed")
    /\ UNCHANGED <<panelVars, stateVars, bak, tunnel, drifted>>

UpAgain(a) ==
    /\ job[a].pc = "again"
    /\ tunnel' = IF ComesUp THEN conf ELSE tunnel
    /\ Goes(a, "failed")
    /\ UNCHANGED <<panelVars, stateVars, conf, bak, drifted>>

ReportFailure(a) ==
    /\ job[a].pc = "failed"
    /\ job' = [job EXCEPT ![a] = NoJob]
    /\ EndsApply(a, FALSE)
    /\ UNCHANGED <<panelVars, mem, file, polling, call, conf, bak, tunnel, drifted>>

ApplyStep(a) ==
    \/ Backup(a) \/ WriteConf(a) \/ Down(a) \/ Up(a) \/ UpFails(a)
    \/ Restore(a) \/ UpAgain(a) \/ ReportFailure(a)

\* POST /api/config: no lock, and the poll loop is not told.
Edit(e, r) ==
    /\ ~ Applying(e)
    /\ Begin(e, [panel |-> Nil, rev |-> r, for |-> Nil, priv |-> Nil])
    /\ drifted' = TRUE
    /\ UNCHANGED <<panelVars, stateVars, conf, bak, tunnel>>

---------------------------------------------------------------------------
(* The poll loop.                                                          *)

LoopAt(pc) == polling /\ loop.pc = pc

\* It reads panel, token and key together, under the lock.
Wake ==
    /\ LoopAt("sleep")
    /\ Connected(mem)
    /\ loop' = [Asleep EXCEPT !.pc = "ask", !.st = mem]
    /\ UNCHANGED <<panelVars, mem, file, polling, lastApplied, call, applyVars>>

RowsOf(p, t) == {k \in Keys : rows[p][k].token = t}

\* handleEnrollPoll; the config comes with an active status only, and the agent
\* puts the private key it read into it.
PanelAnswers ==
    /\ LoopAt("ask")
    /\ \E k \in RowsOf(loop.st.panel, loop.st.token) :
         loop' = [loop EXCEPT
           !.pc = "use",
           !.config = IF rows[loop.st.panel][k].status = "active"
                      THEN [panel |-> loop.st.panel, rev |-> rev[loop.st.panel],
                            for |-> k, priv |-> loop.st.key]
                      ELSE Nil]
    /\ UNCHANGED <<panelVars, mem, file, polling, lastApplied, call, applyVars>>

\* 404: the token is unknown.
PanelForgot ==
    /\ LoopAt("ask")
    /\ RowsOf(loop.st.panel, loop.st.token) = {}
    /\ loop' = [loop EXCEPT !.pc = "down"]
    /\ UNCHANGED <<panelVars, mem, file, polling, lastApplied, call, applyVars>>

\* NodeByToken fails for another reason: 404 as well.
PanelLookupFails ==
    /\ LoopAt("ask")
    /\ loop' = [loop EXCEPT !.pc = "down"]
    /\ UNCHANGED <<panelVars, mem, file, polling, lastApplied, call, applyVars>>

\* No answer, or a status that is neither 200 nor 404.
PollFails ==
    /\ LoopAt("ask")
    /\ loop' = Asleep
    /\ UNCHANGED <<panelVars, mem, file, polling, lastApplied, call, applyVars>>

NothingNew ==
    /\ LoopAt("use")
    /\ loop.config \in {Nil, lastApplied}
    /\ loop' = Asleep
    /\ UNCHANGED <<panelVars, mem, file, polling, lastApplied, call, applyVars>>

ApplyPushed ==
    /\ LoopAt("use")
    /\ loop.config \notin {Nil, lastApplied}
    /\ Begin(Poller, loop.config)
    /\ loop' = [loop EXCEPT !.pc = "apply"]
    /\ UNCHANGED <<panelVars, mem, file, polling, lastApplied, call, conf, bak, tunnel, drifted>>

\* awg-quick down needs the config: run after its removal it does nothing.
DownWithoutConf ==
    /\ LoopAt("down")
    /\ loop' = [loop EXCEPT !.pc = "remove"]
    /\ UNCHANGED <<panelVars, mem, file, polling, lastApplied, call, applyVars>>

\* teardown
TearDown ==
    /\ LoopAt("down")
    /\ tunnel' = Nil
    /\ job' = Meddle(job)
    /\ loop' = [loop EXCEPT !.pc = "remove"]
    /\ UNCHANGED <<panelVars, mem, file, polling, lastApplied, call, conf, bak, drifted>>

RemoveConf ==
    /\ LoopAt("remove")
    /\ conf' = Nil /\ bak' = Nil
    /\ job' = Meddle(job)
    /\ loop' = [loop EXCEPT !.pc = "reset"]
    /\ UNCHANGED <<panelVars, mem, file, polling, lastApplied, call, tunnel, drifted>>

ResetKeypair ==
    /\ LoopAt("reset")
    /\ mem' = NoState
    /\ loop' = [loop EXCEPT !.pc = "truncate", !.st = mem']
    /\ UNCHANGED <<panelVars, file, polling, lastApplied, call, applyVars>>

\* reset wipes whatever enrolment is there by now and keeps the keypair.
Reset ==
    /\ LoopAt("reset")
    /\ mem' = [mem EXCEPT !.token = Nil, !.panel = Nil]
    /\ loop' = [loop EXCEPT !.pc = "truncate", !.st = mem']
    /\ UNCHANGED <<panelVars, file, polling, lastApplied, call, applyVars>>

TruncateReset ==
    /\ LoopAt("truncate")
    /\ Truncate
    /\ loop' = [loop EXCEPT !.pc = "save"]
    /\ UNCHANGED <<panelVars, mem, polling, lastApplied, call, applyVars>>

ResetRemembersConfig ==
    /\ LoopAt("save")
    /\ Write(loop.st) \/ UNCHANGED file
    /\ loop' = Asleep
    /\ UNCHANGED <<panelVars, mem, polling, lastApplied, call, applyVars>>

\* Errors are ignored; the loop forgets what it had applied.
SaveReset ==
    /\ LoopAt("save")
    /\ Write(loop.st) \/ UNCHANGED file
    /\ loop' = Asleep
    /\ lastApplied' = Nil
    /\ UNCHANGED <<panelVars, mem, polling, call, applyVars>>

LoopStep ==
    \/ Wake \/ PanelAnswers \/ PanelForgot \/ NothingNew \/ ApplyPushed
    \/ TearDown \/ RemoveConf \/ Reset \/ TruncateReset \/ SaveReset

---------------------------------------------------------------------------
(* The panel's admin, and the process.                                     *)

SetStatus(p, k, s) ==
    /\ rows[p][k].status # "none"
    /\ rows' = [rows EXCEPT ![p][k].status = s]
    /\ UNCHANGED <<rev, owner, stateVars, applyVars>>

DeleteNode(p, k) ==
    /\ rows[p][k].status # "none"
    /\ rows' = [rows EXCEPT ![p][k] = NoRow]
    /\ UNCHANGED <<rev, owner, stateVars, applyVars>>

\* Another node, link or LAN: the panel renders something else from now on.
MeshChanges(p, r) ==
    /\ rev' = [rev EXCEPT ![p] = r]
    /\ UNCHANGED <<rows, owner, stateVars, applyVars>>

\* main: the loop resumes if the state file has an enrolment.  The interface
\* outlives the process, not the host; a call that was running is over.
Restart ==
    /\ mem' = Loaded
    /\ polling' = Connected(Loaded)
    /\ loop' = Asleep
    /\ lastApplied' = Nil
    /\ call' = [c \in Connectors |-> NoCall]
    /\ job' = [a \in Appliers |-> NoJob]
    /\ tunnel' \in {tunnel, Nil}
    /\ UNCHANGED <<panelVars, file, conf, bak, drifted>>

AdminStep ==
    \E p \in Panels :
      \/ \E k \in Keys : SetStatus(p, k, "active") \/ SetStatus(p, k, "rejected") \/ DeleteNode(p, k)
      \/ \E r \in Revs : MeshChanges(p, r)

ConnectStep(c) == Enroll(c) \/ StoreToken(c) \/ TruncateEnrolled(c) \/ SaveEnrolled(c)

\* Someone does something, or something fails.
Disturbance ==
    \/ AdminStep \/ Restart
    \/ PanelLookupFails \/ PollFails
    \/ \E c \in Connectors : (\E p \in Panels : Connect(c, p)) \/ EnrollLost(c) \/ SaveEnrolledFails(c)
    \/ \E e \in Editors, r \in Revs : Edit(e, r)
    \/ \E a \in Appliers : UpFailsOnce(a) \/ GivesUp(a)

Next ==
    \/ LoopStep
    \/ \E c \in Connectors : ConnectStep(c)
    \/ \E a \in Appliers : ApplyStep(a)
    \/ Disturbance

Spec == Init /\ [][Next]_vars

\* Goroutines are scheduled, time.Sleep ends, commands and answers return.
Fairness ==
    /\ WF_vars(LoopStep)
    /\ \A c \in Connectors : WF_vars(ConnectStep(c))
    /\ \A a \in Appliers : WF_vars(ApplyStep(a))

FairSpec == Spec /\ Fairness

---------------------------------------------------------------------------
(* Properties.                                                             *)

FileShape == [kind : {"absent", "empty", "good", "garbled"}, st : State]
LoopPcs == {"sleep", "ask", "use", "apply", "down", "remove", "reset", "truncate", "save"}
JobPcs == {"idle", "backup", "write", "down", "up", "restore", "again", "failed"}

\* The panels' rows and the agent's memory, files and calls have these shapes.
TypeOK ==
    /\ rows \in [Panels -> [Keys -> Row]]
    /\ rev \in [Panels -> Revs]
    /\ owner \in [Tokens -> Keys \cup {Nil}]
    /\ mem \in State /\ file \in FileShape
    /\ polling \in BOOLEAN /\ drifted \in BOOLEAN
    /\ loop \in [pc : LoopPcs, st : State, config : Config \cup {Nil}]
    /\ call \in [Connectors -> [pc : {"idle", "enroll", "store", "truncate", "save"}, st : State]]
    /\ job \in [Appliers -> [pc : JobPcs, config : Config \cup {Nil}, prior : Config \cup {Nil}]]
    /\ {conf, bak, tunnel, lastApplied} \subseteq Config \cup {Nil}

\* reset keeps the keypair (main.go:353-354) and connect reuses it: whatever is
\* lost, reset or restarted while an enrolment or a poll is on its way, a pushed
\* config gets the private key of the node it was rendered for.
PushedConfigHasItsKey ==
    \A c \in {conf, bak, tunnel, lastApplied, loop.config} \cup {job[a].config : a \in Appliers} :
      c # Nil => c.for = c.priv

\* writeAndApply's backup (main.go:460-463, 480-487): a call that ends in failure
\* leaves the tunnel up that it found up, if it was the only one to touch it, that
\* tunnel was the one of the config file, and its config still comes up.
FailedPushKeepsTunnel ==
    \A a \in Appliers : job[a].pc = "failed" /\ job[a].prior # Nil => tunnel = job[a].prior

\* The agent polls as the node k of panel p.
PollsAs(p, k) ==
    /\ polling /\ mem.panel = p /\ mem.token # Nil
    /\ rows[p][k].token = mem.token

Quiet == <>[][~ Disturbance]_vars

PushedConfig(p, k) == [panel |-> p, rev |-> rev[p], for |-> k, priv |-> k]

\* The node k is active at the panel p, polls it, and what it is pushed comes up.
Served(p, k) == PollsAs(p, k) /\ rows[p][k].status = "active" /\ rev[p] \notin Bad

\* lastApplied and the poll loop (main.go:283-292): once nothing more is changed
\* and nothing fails, a node that is active and polls ends with the tunnel its
\* panel renders, unless what took its place is an edit or a failed apply.
ApprovedNodeGetsItsConfig ==
    Quiet => \A p \in Panels, k \in Keys :
      <>[]Served(p, k) => <>[](drifted \/ tunnel = PushedConfig(p, k))

\* "Nodes running the node agent re-pull and re-apply within ~10s automatically"
\* (README.md:204-205): the same without the exception, where no one edits.
PushedConfigComesUp ==
    Quiet => \A p \in Panels, k \in Keys :
      <>[]Served(p, k) => <>[](tunnel = PushedConfig(p, k))

\* A token its panel does not know (main.go:267-274): either an enrolment that was
\* on its way brings a new one, or the agent ends with no enrolment and with the
\* tunnel down, unless an edit has put it up.  Only a restart that finds the state
\* file half written forgets to.
DeletedNodeGoesDark ==
    Quiet => \A p \in Panels :
      (polling /\ mem.panel = p /\ mem.token # Nil /\ RowsOf(p, mem.token) = {})
        ~> \/ ~ polling
           \/ \E k \in Keys : PollsAs(p, k)
           \/ ~ Connected(mem) /\ (drifted \/ tunnel = Nil)
===========================================================================
