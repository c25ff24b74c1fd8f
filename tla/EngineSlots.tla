---------------------------- MODULE EngineSlots ----------------------------
(***************************************************************************)
(* One call of exec::transcribe_range, as it interleaves with the others:  *)
(* the bounded wait for a permit of the semaphore in AppState, the run on  *)
(* a blocking thread that takes the permit with it, the model's session    *)
(* lock and cancel token (TranscribeCppEngine::transcribe), and the cancel *)
(* that dropping the waiting future sets off from another thread           *)
(* (CancelFlag, CancelOnDrop, AbortGuard).                                 *)
(*                                                                         *)
(* Three threads touch a call: the task that awaits it ("task"), the       *)
(* blocking thread that runs it ("job"), and whoever drops the future      *)
(* ("canceller").  Each has a program counter, and one action is one step  *)
(* of one of them between two points where another can see the state.      *)
(***************************************************************************)
EXTENDS Integers, Sequences, FiniteSets

CONSTANTS
  Calls,        \* request slots; each serves one transcribe_range at a time
  Models,       \* the loaded models, one session each
  ModelOf,      \* the model each call resolves to
  Parallel,     \* --parallel, the permits of AppState.sem
  HonorsAbort,  \* models whose family polls the cancel token (Cancellation)
  Droppable,    \* calls whose future is dropped when the client hangs up (HTTP)
  NoCall        \* "no call": a free lock, a session without a token

ASSUME CallsAssumption == IsFiniteSet(Calls) /\ NoCall \notin Calls
ASSUME ModelOfAssumption == ModelOf \in [Calls -> Models]
ASSUME ParallelAssumption == Parallel \in Nat \ {0}
ASSUME KindsAssumption == HonorsAbort \subseteq Models /\ Droppable \subseteq Calls

VARIABLES
  task,       \* the future of transcribe_range
  reply,      \* what transcribe_range returned
  avail,      \* permits nobody holds
  waiters,    \* the semaphore's FIFO of waiting acquires
  held,       \* calls that own a permit, wherever the permit sits now
  job,        \* the blocking task
  result,     \* what engine.transcribe came back with
  flag,       \* CancelFlag.cancelled
  action,     \* TRUE while CancelFlag.abort holds the call's abort action
  canceller,  \* the thread inside CancelFlag::cancel
  grabbed,    \* cancel() cloned an abort action out of the mutex
  token,      \* the call's own CancelToken has been cancelled
  locked,     \* the call that holds the model's session mutex
  installed   \* the call whose token the model's session has installed

taskVars    == <<task, reply>>
semVars     == <<avail, waiters, held>>
jobVars     == <<job, result>>
cancelVars  == <<flag, canceller, grabbed>>
sessionVars == <<locked, installed>>
vars == <<task, reply, avail, waiters, held, job, result, flag, action,
          canceller, grabbed, token, locked, installed>>

TaskStates == {"idle", "queued", "granted", "expired", "awaiting", "answered", "gone"}
Replies == {"none", "ok", "busy", "bad_request", "internal", "cancelled"}
JobStates == {"none", "spawned", "locked", "guarded", "running", "unguard", "unlock", "release", "finished"}
Results == {"none", "ok", "aborted", "failed", "unsupported", "panic"}
CancellerStates == {"idle", "store", "clone", "invoke", "done"}

(* The job is between the lock of the session and its release. *)
InSession == {"locked", "guarded", "running", "unguard", "unlock"}
(* The job has been spawned and still has the permit it was given. *)
InEngine == {"spawned", "release"} \cup InSession

TypeOK ==
  /\ task \in [Calls -> TaskStates]
  /\ reply \in [Calls -> Replies]
  /\ avail \in 0..Parallel
  /\ waiters \in Seq(Calls)
  /\ held \in SUBSET Calls
  /\ job \in [Calls -> JobStates]
  /\ result \in [Calls -> Results]
  /\ flag \in [Calls -> BOOLEAN]
  /\ action \in [Calls -> BOOLEAN]
  /\ canceller \in [Calls -> CancellerStates]
  /\ grabbed \in [Calls -> BOOLEAN]
  /\ token \in [Calls -> BOOLEAN]
  /\ locked \in [Models -> Calls \cup {NoCall}]
  /\ installed \in [Models -> Calls \cup {NoCall}]

Init ==
  /\ task = [c \in Calls |-> "idle"]
  /\ reply = [c \in Calls |-> "none"]
  /\ avail = Parallel
  /\ waiters = <<>>
  /\ held = {}
  /\ job = [c \in Calls |-> "none"]
  /\ result = [c \in Calls |-> "none"]
  /\ flag = [c \in Calls |-> FALSE]
  /\ action = [c \in Calls |-> FALSE]
  /\ canceller = [c \in Calls |-> "idle"]
  /\ grabbed = [c \in Calls |-> FALSE]
  /\ token = [c \in Calls |-> FALSE]
  /\ locked = [m \in Models |-> NoCall]
  /\ installed = [m \in Models |-> NoCall]

----------------------------------------------------------------------------
(* The semaphore (tokio, external): first come, first served.             *)

(* The waiters that stay when c's acquire is dropped. *)
Without(c) ==
  IF \E i \in DOMAIN waiters : waiters[i] = c
  THEN LET at == CHOOSE i \in DOMAIN waiters : waiters[i] = c
       IN  [i \in 1..(Len(waiters) - 1) |-> IF i < at THEN waiters[i] ELSE waiters[i + 1]]
  ELSE waiters

(* c's permit goes to the first waiter, or back to the counter.  The waiter *)
(* owns it from here on, before its task is polled again; one whose timer   *)
(* has just run out gets it too, and passes it on when it leaves.  "then"   *)
(* is the task function after c's own step.                                 *)
PassPermit(c, then) ==
  \/ /\ waiters = <<>>
     /\ avail' = avail + 1
     /\ held' = held \ {c}
     /\ task' = then
     /\ UNCHANGED waiters
  \/ /\ waiters # <<>>
     /\ waiters' = Tail(waiters)
     /\ held' = (held \ {c}) \cup {Head(waiters)}
     /\ task' = [then EXCEPT ![Head(waiters)] = IF @ = "queued" THEN "granted" ELSE @]
     /\ UNCHANGED avail

(* Dropping an Acquire future: out of the queue, or give back the permit it *)
(* was assigned meanwhile.                                                  *)
DropAcquire(c, then) ==
  \/ c \in held /\ PassPermit(c, then)
  \/ /\ c \notin held
     /\ waiters' = Without(c)
     /\ task' = then
     /\ UNCHANGED <<avail, held>>

----------------------------------------------------------------------------
(* The task: transcribe_range up to its await of the blocking run.        *)

(* spawn_blocking follows the permit without an await in between: a fresh *)
(* CancelFlag, its guard armed, and the permit moved into the closure.    *)
Spawn(c) == job' = [job EXCEPT ![c] = "spawned"]

(* acquire_owned finds a permit at once. *)
Acquire(c) ==
  /\ task[c] = "idle"
  /\ avail > 0
  /\ avail' = avail - 1
  /\ held' = held \cup {c}
  /\ task' = [task EXCEPT ![c] = "awaiting"]
  /\ Spawn(c)
  /\ UNCHANGED <<cancelVars, sessionVars, reply, waiters, result, action, token>>

(* acquire_owned finds none and joins the queue. *)
Enqueue(c) ==
  /\ task[c] = "idle"
  /\ avail = 0
  /\ task' = [task EXCEPT ![c] = "queued"]
  /\ waiters' = Append(waiters, c)
  /\ UNCHANGED <<jobVars, cancelVars, sessionVars, reply, avail, held, action, token>>

(* The task is polled and sees the permit it was assigned; timeout() polls *)
(* the acquire before its own timer, so a permit beats a late deadline.    *)
Wake(c) ==
  /\ task[c] = "granted"
  /\ task' = [task EXCEPT ![c] = "awaiting"]
  /\ Spawn(c)
  /\ UNCHANGED <<semVars, cancelVars, sessionVars, reply, result, action, token>>

(* Mutant of Expire: acquire_owned without a timeout around it. *)
NeverExpire(c) == FALSE /\ UNCHANGED vars

(* The task is polled after QUEUE_TIMEOUT and still has no permit. *)
Expire(c) ==
  /\ task[c] = "queued"
  /\ task' = [task EXCEPT ![c] = "expired"]
  /\ UNCHANGED <<semVars, jobVars, cancelVars, sessionVars, reply, action, token>>

(* The timed-out acquire is dropped and the call answers 503 busy. *)
LeaveQueue(c) ==
  /\ task[c] = "expired"
  /\ DropAcquire(c, [task EXCEPT ![c] = "answered"])
  /\ reply' = [reply EXCEPT ![c] = "busy"]
  /\ UNCHANGED <<jobVars, cancelVars, sessionVars, action, token>>

(* The client hangs up while the call waits: only the acquire is dropped, *)
(* there is no guard yet.                                                  *)
GiveUp(c) ==
  /\ c \in Droppable
  /\ task[c] \in {"queued", "granted"}
  /\ DropAcquire(c, [task EXCEPT ![c] = "gone"])
  /\ UNCHANGED <<jobVars, cancelVars, sessionVars, reply, action, token>>

(* Mutant of HangUp: the permit stays in the future and goes with it. *)
HangUpReleases(c) ==
  /\ c \in Droppable
  /\ task[c] = "awaiting"
  /\ PassPermit(c, [task EXCEPT ![c] = "gone"])
  /\ canceller' = [canceller EXCEPT ![c] = "store"]
  /\ UNCHANGED <<jobVars, sessionVars, reply, flag, action, grabbed, token>>

(* Mutant of HangUp: no CancelOnDrop, the future just goes. *)
HangUpUnguarded(c) ==
  /\ c \in Droppable
  /\ task[c] = "awaiting"
  /\ task' = [task EXCEPT ![c] = "gone"]
  /\ UNCHANGED <<semVars, jobVars, cancelVars, sessionVars, reply, action, token>>

(* The client hangs up while the run is in flight, or done and not yet     *)
(* delivered: dropping the future drops the armed CancelOnDrop, which      *)
(* enters cancel().  The permit is not touched, it is the run's.           *)
HangUp(c) ==
  /\ c \in Droppable
  /\ task[c] = "awaiting"
  /\ task' = [task EXCEPT ![c] = "gone"]
  /\ canceller' = [canceller EXCEPT ![c] = "store"]
  /\ UNCHANGED <<semVars, jobVars, sessionVars, reply, flag, action, grabbed, token>>

(* JoinError and engine_error: what the caller is told. *)
ReplyTo(r) ==
  CASE r = "ok" -> "ok"
    [] r = "aborted" -> "cancelled"
    [] r = "unsupported" -> "bad_request"
    [] OTHER -> "internal"

(* The await returns.  Only the success path disarms the guard: an error   *)
(* leaves by `?' and its guard cancels a flag whose run has ended.         *)
Deliver(c) ==
  /\ task[c] = "awaiting"
  /\ job[c] = "finished"
  /\ task' = [task EXCEPT ![c] = "answered"]
  /\ reply' = [reply EXCEPT ![c] = ReplyTo(result[c])]
  /\ canceller' = [canceller EXCEPT ![c] = IF result[c] = "ok" THEN "idle" ELSE "store"]
  /\ UNCHANGED <<semVars, jobVars, sessionVars, flag, action, grabbed, token>>

----------------------------------------------------------------------------
(* The job: TranscribeCppEngine::transcribe on a blocking thread.         *)

(* The options are refused before the session is touched. *)
Refuse(c) ==
  /\ job[c] = "spawned"
  /\ job' = [job EXCEPT ![c] = "release"]
  /\ result' = [result EXCEPT ![c] = "unsupported"]
  /\ UNCHANGED <<taskVars, semVars, cancelVars, sessionVars, action, token>>

(* Take the session mutex (a poisoned one is recovered) and install a      *)
(* fresh token on the session, which nobody else can see meanwhile.        *)
LockSession(c) ==
  LET m == ModelOf[c] IN
  /\ job[c] = "spawned"
  /\ locked[m] = NoCall
  /\ locked' = [locked EXCEPT ![m] = c]
  /\ installed' = [installed EXCEPT ![m] = c]
  /\ job' = [job EXCEPT ![c] = "locked"]
  /\ UNCHANGED <<taskVars, semVars, cancelVars, result, action, token>>

(* on_cancel: the abort action goes in under the flag's mutex. *)
InstallAction(c) ==
  /\ job[c] = "locked"
  /\ job' = [job EXCEPT ![c] = "guarded"]
  /\ action' = [action EXCEPT ![c] = TRUE]
  /\ UNCHANGED <<taskVars, semVars, cancelVars, sessionVars, result, token>>

(* Mutant of CheckFlag: straight into the run. *)
RunUnchecked(c) ==
  /\ job[c] = "guarded"
  /\ job' = [job EXCEPT ![c] = "running"]
  /\ UNCHANGED <<taskVars, semVars, cancelVars, sessionVars, result, action, token>>

(* is_cancelled, asked after the action is in place and before the run. *)
CheckFlag(c) ==
  /\ job[c] = "guarded"
  /\ job' = [job EXCEPT ![c] = IF flag[c] THEN "unguard" ELSE "running"]
  /\ result' = [result EXCEPT ![c] = IF flag[c] THEN "aborted" ELSE @]
  /\ UNCHANGED <<taskVars, semVars, cancelVars, sessionVars, action, token>>

(* session.run returns, on its own or by a panic that unwinds through it. *)
RunEnds(c, r) ==
  /\ job[c] = "running"
  /\ job' = [job EXCEPT ![c] = "unguard"]
  /\ result' = [result EXCEPT ![c] = r]
  /\ UNCHANGED <<taskVars, semVars, cancelVars, sessionVars, action, token>>

RunCompletes(c) == RunEnds(c, "ok")
RunFails(c) == RunEnds(c, "failed")
RunPanics(c) == RunEnds(c, "panic")

(* The token the session has installed is cancelled, and the family polls  *)
(* it: the run ends as aborted, whoever's token that is.                   *)
RunAborts(c) ==
  LET m == ModelOf[c] IN
  /\ m \in HonorsAbort
  /\ installed[m] # NoCall
  /\ token[installed[m]]
  /\ RunEnds(c, "aborted")

(* Mutant of DropGuard: the action outlives the run. *)
DropGuardLate(c) ==
  /\ job[c] = "unguard"
  /\ job' = [job EXCEPT ![c] = "unlock"]
  /\ UNCHANGED <<taskVars, semVars, cancelVars, sessionVars, result, action, token>>

(* Mutant of DropGuard: the session is unlocked before its token is cleared. *)
DropGuardUnlocks(c) ==
  /\ job[c] = "unguard"
  /\ job' = [job EXCEPT ![c] = "unlock"]
  /\ action' = [action EXCEPT ![c] = FALSE]
  /\ locked' = [locked EXCEPT ![ModelOf[c]] = NoCall]
  /\ UNCHANGED <<taskVars, semVars, cancelVars, result, token, installed>>

(* The AbortGuard drops, explicitly or while unwinding. *)
DropGuard(c) ==
  /\ job[c] = "unguard"
  /\ job' = [job EXCEPT ![c] = "unlock"]
  /\ action' = [action EXCEPT ![c] = FALSE]
  /\ UNCHANGED <<taskVars, semVars, cancelVars, sessionVars, result, token>>

(* Mutant of UnlockSession: a panic leaves the session mutex unusable. *)
UnlockSessionUnlessPanic(c) ==
  LET m == ModelOf[c] IN
  /\ job[c] = "unlock"
  /\ installed' = [installed EXCEPT ![m] = IF result[c] = "panic" THEN @ ELSE NoCall]
  /\ locked' = [locked EXCEPT ![m] = IF result[c] = "panic" THEN @ ELSE NoCall]
  /\ job' = [job EXCEPT ![c] = "release"]
  /\ UNCHANGED <<taskVars, semVars, cancelVars, result, action, token>>

(* clear_cancel_token, skipped by a panic, and the session mutex is free. *)
UnlockSession(c) ==
  LET m == ModelOf[c] IN
  /\ job[c] = "unlock"
  /\ installed' = [installed EXCEPT ![m] = IF result[c] = "panic" THEN @ ELSE NoCall]
  /\ locked' = [locked EXCEPT ![m] = NoCall]
  /\ job' = [job EXCEPT ![c] = "release"]
  /\ UNCHANGED <<taskVars, semVars, cancelVars, result, action, token>>

(* drop(permit), or the unwinding closure drops it; the result is ready. *)
ReleasePermit(c) ==
  /\ job[c] = "release"
  /\ PassPermit(c, task)
  /\ job' = [job EXCEPT ![c] = "finished"]
  /\ UNCHANGED <<cancelVars, sessionVars, reply, result, action, token>>

----------------------------------------------------------------------------
(* The canceller: CancelFlag::cancel, from whichever thread drops.        *)

StoreFlag(c) ==
  /\ canceller[c] = "store"
  /\ canceller' = [canceller EXCEPT ![c] = "clone"]
  /\ flag' = [flag EXCEPT ![c] = TRUE]
  /\ UNCHANGED <<taskVars, semVars, jobVars, sessionVars, action, grabbed, token>>

(* The action is cloned out of the mutex and called without it. *)
CloneAction(c) ==
  /\ canceller[c] = "clone"
  /\ canceller' = [canceller EXCEPT ![c] = "invoke"]
  /\ grabbed' = [grabbed EXCEPT ![c] = action[c]]
  /\ UNCHANGED <<taskVars, semVars, jobVars, sessionVars, flag, action, token>>

(* Mutant of AbortTarget: the abort action cancels whatever token the      *)
(* session has installed by then.                                          *)
SessionTarget(c) ==
  IF installed[ModelOf[c]] = NoCall THEN c ELSE installed[ModelOf[c]]

(* The token that c's abort action cancels: the one created for c's call. *)
AbortTarget(c) == c

InvokeAction(c) ==
  /\ canceller[c] = "invoke"
  /\ canceller' = [canceller EXCEPT ![c] = "done"]
  /\ token' = [token EXCEPT ![AbortTarget(c)] = @ \/ grabbed[c]]
  /\ UNCHANGED <<taskVars, semVars, jobVars, sessionVars, flag, action, grabbed>>

----------------------------------------------------------------------------
(* Nothing of the call is left on any thread: its flag, token and result   *)
(* are dropped with their last owner and the slot can serve a new request. *)
Retire(c) ==
  /\ task[c] \in {"answered", "gone"}
  /\ job[c] \in {"none", "finished"}
  /\ canceller[c] \in {"idle", "done"}
  /\ task' = [task EXCEPT ![c] = "idle"]
  /\ reply' = [reply EXCEPT ![c] = "none"]
  /\ job' = [job EXCEPT ![c] = "none"]
  /\ result' = [result EXCEPT ![c] = "none"]
  /\ flag' = [flag EXCEPT ![c] = FALSE]
  /\ canceller' = [canceller EXCEPT ![c] = "idle"]
  /\ grabbed' = [grabbed EXCEPT ![c] = FALSE]
  /\ token' = [token EXCEPT ![c] = FALSE]
  /\ UNCHANGED <<semVars, sessionVars, action>>

TaskStep(c) ==
  \/ Acquire(c) \/ Enqueue(c) \/ Wake(c) \/ Expire(c) \/ LeaveQueue(c)
  \/ GiveUp(c) \/ HangUp(c) \/ Deliver(c) \/ Retire(c)

JobStep(c) ==
  \/ Refuse(c) \/ LockSession(c) \/ InstallAction(c) \/ CheckFlag(c)
  \/ RunCompletes(c) \/ RunFails(c) \/ RunPanics(c) \/ RunAborts(c)
  \/ DropGuard(c) \/ UnlockSession(c) \/ ReleasePermit(c)

CancelStep(c) == StoreFlag(c) \/ CloneAction(c) \/ InvokeAction(c)

Next == \E c \in Calls : TaskStep(c) \/ JobStep(c) \/ CancelStep(c)

Spec == Init /\ [][Next]_vars

(* The runtime polls every ready task and fires every timer; a blocking    *)
(* thread runs on between its waits, and the thread inside cancel()        *)
(* returns from it.  Nothing is assumed of clients, and nothing of         *)
(* session.run but that a family that honors the abort callback notices a  *)
(* cancelled token.                                                        *)
Fairness == \A c \in Calls :
  /\ WF_vars(Wake(c) \/ Expire(c)) /\ WF_vars(LeaveQueue(c)) /\ WF_vars(Deliver(c))
  /\ WF_vars(LockSession(c))
  /\ WF_vars(InstallAction(c) \/ CheckFlag(c) \/ DropGuard(c) \/ UnlockSession(c) \/ ReleasePermit(c))
  /\ WF_vars(RunAborts(c))
  /\ WF_vars(CancelStep(c))

FairSpec == Spec /\ Fairness

----------------------------------------------------------------------------
(* Safety.                                                                 *)

Queued == {waiters[i] : i \in DOMAIN waiters}

(* Every permit is accounted for, and exactly the calls that should own    *)
(* one do: a task that was handed one and has not been polled, one whose   *)
(* timer ran out just before it was handed one, and every run until it has *)
(* really ended.  No hang-up, timeout or panic leaks or duplicates one     *)
(* (exec.rs, the permit moved into the blocking closure).                  *)
PermitAccounted ==
  /\ avail + Cardinality(held) = Parallel
  /\ \A c \in Calls : c \in held <=>
       \/ task[c] = "granted"
       \/ task[c] = "expired" /\ c \notin Queued
       \/ job[c] \in InEngine

(* --parallel bounds the runs in flight, those whose client has left       *)
(* included (the comment over the permit in transcribe_range).             *)
WorkBound == Cardinality({c \in Calls : job[c] \in InEngine}) <= Parallel

(* While a call is inside the session, the session mutex is its own and    *)
(* the session polls its own token, also after another run panicked and    *)
(* left its token behind (TranscribeCppEngine::transcribe).                *)
SessionOwned == \A c \in Calls : job[c] \in InSession =>
  locked[ModelOf[c]] = c /\ installed[ModelOf[c]] = c

(* A run ends as aborted only when its own caller hung up: no cancel of    *)
(* another call, however late, reaches it, so 499 is never delivered       *)
(* (engine_error: "only reachable when the caller is already gone").       *)
AbortOnlyAbandoned == \A c \in Calls : result[c] = "aborted" => task[c] = "gone"

(* A cancel is never lost between the spawn and the run: once cancel() has *)
(* returned, a run still going has its token cancelled on the session      *)
(* (CancelFlag::on_cancel: check is_cancelled after installing).           *)
CancelReachesRun == \A c \in Calls :
  job[c] = "running" /\ canceller[c] = "done" => token[c] /\ installed[ModelOf[c]] = c

----------------------------------------------------------------------------
(* The inductive invariant: what ties the three threads of a call together. *)

(* tokio's semaphore keeps no permit while somebody waits for one. *)
NoIdlePermit == waiters # <<>> => avail = 0

(* The queue holds each waiting call once, and a call that left it has been *)
(* given a permit or has gone.                                              *)
QueueInv ==
  /\ \A i, j \in DOMAIN waiters : waiters[i] = waiters[j] => i = j
  /\ \A c \in Calls :
       /\ c \in Queued => task[c] \in {"queued", "expired"}
       /\ task[c] = "queued" => c \in Queued
  /\ NoIdlePermit

(* Which job and which canceller a call can have, by where its task is. *)
StageInv == \A c \in Calls :
  /\ task[c] \in {"idle", "queued", "granted", "expired"}
       => job[c] = "none" /\ canceller[c] = "idle" /\ result[c] = "none"
  /\ task[c] = "awaiting" => job[c] # "none" /\ canceller[c] = "idle"
  /\ task[c] = "answered" => job[c] \in {"none", "finished"}

(* How far a cancel has come, and what it has done to its own run. *)
CancelInv == \A c \in Calls :
  /\ canceller[c] \in {"clone", "invoke", "done"} <=> flag[c]
  /\ token[c] => flag[c]
  /\ action[c] <=> job[c] \in {"guarded", "running", "unguard"}
  /\ job[c] = "running" /\ canceller[c] = "invoke" => grabbed[c]
  /\ job[c] = "running" /\ canceller[c] = "done" => token[c]

IInv ==
  /\ TypeOK /\ PermitAccounted /\ QueueInv /\ StageInv
  /\ SessionOwned /\ CancelInv /\ AbortOnlyAbandoned

----------------------------------------------------------------------------
(* Refinement: the calls and their runs implement SlotService.             *)

CallerView == [c \in Calls |->
  CASE task[c] = "idle" -> "absent"
    [] task[c] = "gone" -> "left"
    [] task[c] = "answered" -> IF reply[c] \in {"bad_request", "internal"} THEN "error" ELSE reply[c]
    [] OTHER -> "waiting"]

RunEnd(r) == CASE r = "ok" -> "ok" [] r = "aborted" -> "stopped" [] OTHER -> "error"

EngineView == [c \in Calls |->
  CASE job[c] = "none" -> "out"
    [] job[c] \in InEngine -> "in"
    [] OTHER -> RunEnd(result[c])]

Service == INSTANCE SlotService WITH caller <- CallerView, engine <- EngineView

(* Every behaviour of the calls is one SlotService allows. *)
ServiceSpec == Service!Spec

----------------------------------------------------------------------------
(* Liveness.                                                               *)

(* A call does not wait for a permit longer than QUEUE_TIMEOUT, whatever   *)
(* the runs that hold the permits do.                                      *)
QueueWaitEnds == \A c \in Calls : task[c] = "queued" ~> task[c] # "queued"

(* A run whose client hung up gives its permit back without finishing its  *)
(* inference, on a family that honors the abort callback.                  *)
CancelStopsRun == \A c \in Calls :
  task[c] = "gone" /\ job[c] = "running" /\ ModelOf[c] \in HonorsAbort ~> c \notin held

(* The engine finishes what it is given, one way or another. *)
InferenceEnds == \A c \in Calls : WF_vars(RunCompletes(c) \/ RunFails(c) \/ RunPanics(c))

(* If every inference ends, every caller that stays gets its answer, for   *)
(* as long as no run waits for another at the session mutex (one permit).  *)
EveryCallReturns == InferenceEnds => \A c \in Calls : task[c] = "awaiting" ~> task[c] # "awaiting"

(* Runs that wait for one session, each with a permit of its own, do not   *)
(* block each other: one is kept from it for ever only by others that get  *)
(* through it again and again (std's mutex promises no order), never by    *)
(* one that panicked, was refused or was abandoned on its way              *)
(* (TranscribeCppEngine::transcribe, session.lock()).                      *)
SessionPassedOn == InferenceEnds => \A c \in Calls :
  \/ []<>(job[c] # "spawned")
  \/ \E d \in Calls \ {c} : ModelOf[d] = ModelOf[c] /\ []<><<LockSession(d)>>_vars
=============================================================================
