---------------------------- MODULE CopyPromise ----------------------------
(***************************************************************************)
(* What the callers of the copy service rely on (nsIMsgCopyService.idl,    *)
(* nsIMsgCopyServiceListener.idl): every destination folder deals with the *)
(* requests for it one at a time in the order they were submitted, and     *)
(* tells each listener once that its copy has ended.  How completions are  *)
(* matched to requests is not part of it.                                  *)
(***************************************************************************)
EXTENDS Integers

CONSTANTS
  Request,  \* numbers, given out in the order of submission
  Folder

VARIABLES
  queue,   \* for each folder, the requests it still has to deal with
  state,   \* how far each request has come
  open     \* FALSE once the application exits

vars == <<queue, state, open>>

Init ==
  /\ queue = [f \in Folder |-> {}]
  /\ state = [r \in Request |-> "new"]
  /\ open = TRUE

IsNext(r) ==
  /\ state[r] = "new"
  /\ \A q \in Request : q < r => state[q] # "new"

Submit(r, f) ==
  /\ open
  /\ IsNext(r)
  /\ state' = [state EXCEPT ![r] = "waiting"]
  /\ queue' = [queue EXCEPT ![f] = @ \cup {r}]
  /\ UNCHANGED open

\* There is nothing to copy, and the caller is told at once.
SubmitNothing(r) ==
  /\ open
  /\ IsNext(r)
  /\ state' = [state EXCEPT ![r] = "stopped"]
  /\ UNCHANGED <<queue, open>>

IsOldest(r, f) ==
  /\ r \in queue[f]
  /\ \A q \in queue[f] : r <= q

Start(r, f) ==
  /\ IsOldest(r, f)
  /\ state[r] = "waiting"
  /\ state' = [state EXCEPT ![r] = "copying"]
  /\ UNCHANGED <<queue, open>>

Stop(r, f) ==
  /\ IsOldest(r, f)
  /\ state[r] = "copying"
  /\ state' = [state EXCEPT ![r] = "stopped"]
  /\ queue' = [queue EXCEPT ![f] = @ \ {r}]
  /\ UNCHANGED open

Exit ==
  /\ open
  /\ open' = FALSE
  /\ queue' = [f \in Folder |-> {}]
  /\ state' = [r \in Request |-> IF state[r] \in {"waiting", "copying"}
                                   THEN "stopped" ELSE state[r]]

Proceed(f) == \E r \in Request : Start(r, f) \/ Stop(r, f)

Next == \/ \E r \in Request : \/ \E f \in Folder : Submit(r, f)
                              \/ SubmitNothing(r)
        \/ \E f \in Folder : Proceed(f)
        \/ Exit

Spec == Init /\ [][Next]_vars

\* A folder's queue keeps moving.
FairSpec == Spec /\ \A f \in Folder : WF_vars(Proceed(f))

=============================================================================
