------------------------- MODULE ICSCalendarProofs -------------------------
(***************************************************************************)
(* Proofs about ICSCalendar: the types, that what is answered as           *)
(* successful has been stored, that a calendar at rest shows the file, and *)
(* that an upload changes what it answers for.                             *)
(***************************************************************************)
EXTENDS ICSCalendar, WellFoundedInduction, TLAPS

(* What an item may hold after m changes, and what may be queued.          *)
Holding(m) == {Absent} \cup [v : 1..2, g : 0..m]
Refreshes == [kind : {"refresh"}, forced : BOOLEAN]
ItemChanges(m) ==
  [kind : {"add", "modify", "delete"}, item : Item, old : Holding(m),
   new : Holding(m), n : Change]
Op(m) ==
  Refreshes \cup {op \in ItemChanges(m) : op.kind # "delete" => op.new # Absent}
Action == [n : Change, ok : BOOLEAN, item : Item]

(* The calendar after m changes of the user, the file being at version v.  *)
Calendar(m, v) ==
  [ queue : Seq(Op(m)), actions : Seq(Action), locked : BOOLEAN,
    pending : [Callback -> Nat], mem : [Item -> Holding(m)],
    etag : 0..v, modified : 0..v, readOnly : BOOLEAN, known : 0..v,
    body : [Item -> Holding(m)], match : 0..v, ours : 0..v,
    loaded : BOOLEAN ]

File(m) ==
  [items : [Item -> Holding(m)], version : Nat, form : {"ok", "notUtf8", "notIcs"}]

Types ==
  /\ case \in Cases
  /\ made \in [changes : 0..MaxChanges, refreshes : Nat, others : Nat]
  /\ file \in File(made.changes)
  /\ cal \in Calendar(made.changes, file.version)
  /\ answer \in [Change -> {"none", "ok", "failed"}]
  /\ stored \subseteq Change /\ unasked \subseteq Item

(* No deletion in the queue q will find its item gone: it is there now, and
   neither a download nor another deletion comes first.                    *)
Doable(q, mem) ==
  \A k \in DOMAIN q : q[k].kind = "delete" =>
    /\ mem[q[k].item] # Absent
    /\ \A j \in 1..(k - 1) : /\ q[j].kind # "refresh"
                             /\ q[j].kind = "delete" => q[j].item # q[k].item

NoDeletion(q) == \A k \in DOMAIN q : q[k].kind # "delete"

Only(b) == [d \in Callback |-> IF d = b THEN 1 ELSE 0]
Nothing == [d \in Callback |-> 0]

(* A locked calendar waits for one callback, unless the answer to a PROPFIND
   could not be read, and only a download may make an item disappear; an
   unlocked calendar is idle.                                              *)
Orderly(c) ==
  IF c.locked
  THEN /\ Doable(c.queue, c.mem)
       /\ \/ \E b \in Callback : c.pending = Only(b)
          \/ c.pending = Nothing /\ Has("badAnswer")
       /\ c.pending["get"] = 1 => c.actions = <<>> /\ NoDeletion(c.queue)
  ELSE c.pending = Nothing /\ c.queue = <<>> /\ c.actions = <<>>

(* What the changes that an upload has carried were answered, or will be.  *)
Kept(c) ==
  c.pending["answer"] = 1 \/ c.pending["etag"] = 1 =>
    \A k \in DOMAIN c.actions : c.actions[k].ok => c.actions[k].n \in stored

AnswersKept == \A n \in Change : answer[n] = "ok" => n \in stored

Inv ==
  Types /\ (Without({"gone"}) => Orderly(cal) /\ Kept(cal) /\ AnswersKept)

-----------------------------------------------------------------------------
(* The round of processQueue, whose steps are a recursive function: that   *)
(* there is one, and what holds at its end, by the least step at which it  *)
(* would not.                                                              *)

LEMMA LeastNatural ==
  ASSUME NEW S \in SUBSET Nat, S # {}
  PROVE  \E n \in S : \A m \in S : n <= m
<1>1. PICK n \in S : \A m \in S : ~(<<m, n>> \in OpToRel(<, Nat))
  BY NatLessThanWellFounded, WFMin
<1>2. \A m \in S : ~(m < n)
  BY <1>1 DEF OpToRel
<1>. QED BY <1>2

(* What holds of 0 and of the next number with each, up to N, holds of N.  *)
LEMMA UpTo ==
  ASSUME NEW N \in Nat, NEW S, 0 \in S,
         \A k \in 0..N : k \in S /\ k + 1 \in 0..N => k + 1 \in S
  PROVE  N \in S
<1>. DEFINE Missing == {k \in 0..N : k \notin S}
<1>1. CASE Missing # {}
  <2>1. Missing \in SUBSET Nat
    OBVIOUS
  <2>2. PICK m \in Missing : \A k \in Missing : m <= k
    <3>. HIDE DEF Missing
    <3>. QED BY <1>1, <2>1, LeastNatural
  <2>3. m # 0
    BY <2>2
  <2>4. m - 1 \in 0..N /\ m - 1 \notin Missing /\ (m - 1) + 1 = m
    BY <2>2, <2>3
  <2>. QED BY <2>2, <2>4
<1>2. CASE Missing = {}
  BY <1>2
<1>. QED BY <1>1, <1>2

Begun(c) ==
  [c |-> c, rest |-> <<>>, write |-> FALSE, stop |-> "no",
   refresh |-> [kind |-> "none"]]

(* f is the first n steps of a round.                                      *)
Steps(f, c, n) ==
  f = [k \in 0..n |-> IF k = 0 THEN Begun(c) ELSE Perform(f[k - 1], c.queue[k])]

LEMMA StepsGoOn ==
  ASSUME NEW c, NEW n \in Nat, NEW f, Steps(f, c, n)
  PROVE  \E g : Steps(g, c, n + 1)
<1>. DEFINE op == c.queue[n + 1]
<1>1. PICK g : g = [k \in 0..(n + 1) |-> IF k <= n THEN f[k] ELSE Perform(f[n], op)]
  OBVIOUS
<1>2. PICK h : h = [k \in 0..(n + 1) |->
                      IF k = 0 THEN Begun(c) ELSE Perform(g[k - 1], c.queue[k])]
  OBVIOUS
<1>3. ASSUME NEW k \in 0..(n + 1) PROVE g[k] = h[k]
  <2>1. CASE k = 0
    <3>1. h[k] = Begun(c)
      BY <1>2, <2>1
    <3>2. g[k] = f[0]
      BY <1>1, <2>1
    <3>. QED BY <3>1, <3>2 DEF Steps
  <2>2. CASE k # 0 /\ k <= n
    <3>1. k \in 0..n /\ k - 1 \in 0..(n + 1) /\ k - 1 <= n
      BY <2>2
    <3>2. g[k] = f[k] /\ g[k - 1] = f[k - 1]
      BY <1>1, <2>2, <3>1
    <3>3. f[k] = Perform(f[k - 1], c.queue[k])
      BY <2>2, <3>1 DEF Steps
    <3>. QED BY <1>2, <2>2, <3>2, <3>3
  <2>3. CASE k = n + 1
    <3>1. g[k] = Perform(f[n], op) /\ k - 1 = n /\ k # 0
      BY <1>1, <2>3
    <3>2. g[n] = f[n]
      BY <1>1
    <3>3. h[k] = Perform(g[n], c.queue[k])
      BY <1>2, <3>1
    <3>. QED BY <2>3, <3>1, <3>2, <3>3
  <2>. QED BY <2>1, <2>2, <2>3
<1>4. g = h
  BY <1>1, <1>2, <1>3, Zenon
<1>. QED BY <1>2, <1>4, Zenon DEF Steps

LEMMA StepsExist ==
  ASSUME NEW c, NEW n \in Nat
  PROVE  \E f : Steps(f, c, n)
<1>1. PICK S : S = {m \in Nat : \E f : Steps(f, c, m)}
  OBVIOUS
<1>2. 0 \in S
  <2>1. Steps([k \in 0..0 |-> Begun(c)], c, 0)
    BY DEF Steps
  <2>. QED BY <1>1, <2>1
<1>3. \A m \in S : m + 1 \in S
  BY <1>1, StepsGoOn
<1>4. n \in S
  BY <1>2, <1>3, UpTo
<1>. QED BY <1>1, <1>4

LEMMA RoundIsLastStep ==
  ASSUME NEW c, Len(c.queue) \in Nat
  PROVE  \E f : Steps(f, c, Len(c.queue)) /\ Round(c) = f[Len(c.queue)]
<1>1. PICK f : f = CHOOSE g : Steps(g, c, Len(c.queue))
  OBVIOUS
<1>2. Steps(f, c, Len(c.queue))
  BY <1>1, StepsExist
<1>3. Round(c) = f[Len(c.queue)]
  BY <1>1, Zenon DEF Round, Steps, Begun
<1>. QED BY <1>2, <1>3

-----------------------------------------------------------------------------
(* One change in the memory calendar, and one step of a round.             *)

(* d differs from c in the items, the actions and readOnly.                *)
SameLock(d, c) ==
  d.locked = c.locked /\ d.pending = c.pending /\ d.queue = c.queue

(* d is c after the change op, which may have been refused.                *)
Changed(d, c, op) ==
  SameLock(d, c) /\ (d.mem = c.mem \/ d.mem = [c.mem EXCEPT ![op.item] = op.new])

LEMMA HoldingGrows ==
  ASSUME NEW m \in Nat, NEW n \in Nat, m <= n
  PROVE  Holding(m) \subseteq Holding(n) /\ Absent \in Holding(m)
<1>1. 0..m \subseteq 0..n
  OBVIOUS
<1>. QED BY <1>1 DEF Holding

LEMMA AcceptedKeeps ==
  ASSUME NEW m, NEW v, NEW c \in Calendar(m, v), NEW op \in ItemChanges(m)
  PROVE  Accepted(c, op) \in Calendar(m, v) /\ Changed(Accepted(c, op), c, op)
<1>1. PICK action : action = [n |-> op.n, ok |-> TRUE, item |-> op.item]
  OBVIOUS
<1>2. PICK actions : actions = Append(c.actions, action)
  OBVIOUS
<1>3. PICK mem : mem = [c.mem EXCEPT ![op.item] = op.new]
  OBVIOUS
<1>4. PICK d : d = [c EXCEPT !.mem = mem, !.actions = actions]
  OBVIOUS
<1>5. action \in Action
  BY <1>1 DEF Action, ItemChanges
<1>6. c.actions \in Seq(Action) /\ c.mem \in [Item -> Holding(m)]
  BY DEF Calendar
<1>7. actions \in Seq(Action)
  BY <1>2, <1>5, <1>6
<1>8. mem \in [Item -> Holding(m)]
  BY <1>3, <1>6 DEF ItemChanges
<1>9. d \in Calendar(m, v)
  BY <1>4, <1>7, <1>8 DEF Calendar
<1>10. d.mem = mem /\ SameLock(d, c)
  BY <1>4 DEF Calendar, SameLock
<1>11. Accepted(c, op) = d
  BY <1>1, <1>2, <1>3, <1>4 DEF Accepted, Calendar
<1>. QED BY <1>3, <1>9, <1>10, <1>11 DEF Changed

LEMMA RejectedKeeps ==
  ASSUME NEW m, NEW v, NEW c \in Calendar(m, v), NEW op \in ItemChanges(m)
  PROVE  Rejected(c, op) \in Calendar(m, v) /\ Changed(Rejected(c, op), c, op)
<1>1. PICK action : action = [n |-> op.n, ok |-> FALSE, item |-> op.item]
  OBVIOUS
<1>2. PICK actions : actions = Append(c.actions, action)
  OBVIOUS
<1>3. PICK d : d = [c EXCEPT !.readOnly = TRUE, !.actions = actions]
  OBVIOUS
<1>4. action \in Action
  BY <1>1 DEF Action, ItemChanges
<1>5. c.actions \in Seq(Action)
  BY DEF Calendar
<1>6. actions \in Seq(Action)
  BY <1>2, <1>4, <1>5
<1>7. d \in Calendar(m, v)
  BY <1>3, <1>6 DEF Calendar
<1>8. d.mem = c.mem /\ SameLock(d, c)
  BY <1>3 DEF Calendar, SameLock
<1>9. Rejected(c, op) = d
  BY <1>1, <1>2, <1>3 DEF Rejected, Calendar
<1>. QED BY <1>7, <1>8, <1>9 DEF Changed

(* What a round carries from one step to the next.                         *)
RoundState(m, v) ==
  [ c : Calendar(m, v), rest : Seq(Op(m)), write : BOOLEAN,
    stop : {"no", "refresh", "threw"},
    refresh : Refreshes \cup {[kind |-> "none"]} ]

(* After k steps of the round of c: nothing is left behind before the round
   stops, and if the deletions could be done, those still to come can, and
   none comes after a refresh.                                             *)
RoundOK(b, c, k) ==
  /\ SameLock(b.c, c)
  /\ b.stop = "no" => b.rest = <<>>
  /\ b.stop = "refresh" => b.refresh \in Refreshes
  /\ ~b.write => b.c.actions = c.actions

DeletionsOK(b, c, k) ==
  /\ b.stop # "threw"
  /\ b.stop = "no" =>
       \A j \in (k + 1)..Len(c.queue) :
         c.queue[j].kind = "delete" => b.c.mem[c.queue[j].item] # Absent
  /\ b.stop = "refresh" =>
       NoDeletion(b.rest) /\ \E j \in 1..k : c.queue[j].kind = "refresh"

LEMMA BegunIsOK ==
  ASSUME NEW m, NEW v, NEW c \in Calendar(m, v)
  PROVE  /\ Begun(c) \in RoundState(m, v) /\ RoundOK(Begun(c), c, 0)
         /\ Doable(c.queue, c.mem) => DeletionsOK(Begun(c), c, 0)
<1>1. PICK b : b = Begun(c)
  OBVIOUS
<1>2. b \in RoundState(m, v)
  BY <1>1 DEF Begun, RoundState
<1>3. b.c = c /\ b.rest = <<>> /\ ~b.write /\ b.stop = "no"
  BY <1>1 DEF Begun
<1>4. RoundOK(b, c, 0)
  BY <1>3 DEF RoundOK, SameLock
<1>5. DOMAIN c.queue = 1..Len(c.queue)
  BY DEF Calendar
<1>6. Doable(c.queue, c.mem) => DeletionsOK(b, c, 0)
  BY <1>3, <1>5 DEF DeletionsOK, Doable
<1>. QED BY <1>1, <1>2, <1>4, <1>6

LEMMA Behind ==
  ASSUME NEW m, NEW v, NEW c \in Calendar(m, v), NEW k \in Nat,
         NEW j \in (k + 2)..Len(c.queue)
  PROVE  /\ j \in DOMAIN c.queue /\ j \in (k + 1)..Len(c.queue)
         /\ k + 1 \in 1..(j - 1)
<1>1. c.queue \in Seq(Op(m))
  BY DEF Calendar
<1>2. PICK N \in Nat : N = Len(c.queue)
  BY <1>1
<1>3. DOMAIN c.queue = 1..N
  BY <1>1, <1>2
<1>. QED BY <1>2, <1>3

(* The round goes on: an item changes, and that is to be written.          *)
LEMMA PerformWrites ==
  ASSUME NEW m, NEW v, NEW c \in Calendar(m, v), NEW b \in RoundState(m, v),
         NEW k \in Nat, k + 1 \in 1..Len(c.queue), RoundOK(b, c, k),
         Doable(c.queue, c.mem) => DeletionsOK(b, c, k),
         b.stop = "no", NEW op \in ItemChanges(m), op = c.queue[k + 1],
         op.kind # "delete" => op.new # Absent,
         NEW d \in Calendar(m, v), Changed(d, b.c, op),
         NEW e, e = [b EXCEPT !.c = d, !.write = TRUE]
  PROVE  /\ e \in RoundState(m, v) /\ RoundOK(e, c, k + 1)
         /\ Doable(c.queue, c.mem) => DeletionsOK(e, c, k + 1)
<1>1. e \in RoundState(m, v)
  BY DEF RoundState
<1>2. e.c = d /\ e.write /\ e.stop = "no" /\ e.rest = b.rest
  BY DEF RoundState
<1>3. RoundOK(e, c, k + 1)
  BY <1>2 DEF RoundOK, SameLock, Changed
<1>4. ASSUME Doable(c.queue, c.mem), NEW j \in (k + 2)..Len(c.queue),
             c.queue[j].kind = "delete"
      PROVE  d.mem[c.queue[j].item] # Absent
  <2>1. j \in DOMAIN c.queue /\ j \in (k + 1)..Len(c.queue) /\ k + 1 \in 1..(j - 1)
    BY <1>4, Behind
  <2>2. b.c.mem[c.queue[j].item] # Absent
    BY <1>4, <2>1 DEF DeletionsOK
  <2>3. op.kind = "delete" => op.item # c.queue[j].item
    BY <1>4, <2>1 DEF Doable
  <2>4. b.c.mem \in [Item -> Holding(m)]
    BY DEF RoundState, Calendar
  <2>5. c.queue[j] \in Op(m)
    <3>1. c.queue \in Seq(Op(m))
      BY DEF Calendar
    <3>. QED BY <2>1, <3>1
  <2>6. c.queue[j].item \in Item
    BY <1>4, <2>5 DEF Op, ItemChanges, Refreshes
  <2>. QED BY <2>2, <2>3, <2>4, <2>6 DEF Changed
<1>5. (k + 1) + 1 = k + 2
  OBVIOUS
<1>6. ASSUME Doable(c.queue, c.mem) PROVE DeletionsOK(e, c, k + 1)
  <2>1. \A j \in (k + 2)..Len(c.queue) :
          c.queue[j].kind = "delete" => d.mem[c.queue[j].item] # Absent
    BY <1>4, <1>6
  <2>. QED BY <1>2, <1>5, <2>1 DEF DeletionsOK
<1>. QED BY <1>1, <1>3, <1>6

LEMMA PerformKeeps ==
  ASSUME NEW m, NEW v, NEW c \in Calendar(m, v), NEW b \in RoundState(m, v),
         NEW k \in Nat, k + 1 \in 1..Len(c.queue), RoundOK(b, c, k),
         Doable(c.queue, c.mem) => DeletionsOK(b, c, k)
  PROVE  /\ Perform(b, c.queue[k + 1]) \in RoundState(m, v)
         /\ RoundOK(Perform(b, c.queue[k + 1]), c, k + 1)
         /\ Doable(c.queue, c.mem) =>
              DeletionsOK(Perform(b, c.queue[k + 1]), c, k + 1)
<1>1. PICK op : op = c.queue[k + 1]
  OBVIOUS
<1>2. op \in Op(m) /\ k + 1 \in DOMAIN c.queue
  BY <1>1 DEF Calendar
<1>3. PICK e : e = Perform(b, op)
  OBVIOUS
<1>4. CASE b.stop # "no"
  <2>1. PICK rest : rest = Append(b.rest, op)
    OBVIOUS
  <2>2. b.rest \in Seq(Op(m))
    BY DEF RoundState
  <2>3. rest \in Seq(Op(m))
    BY <1>2, <2>1, <2>2
  <2>4. e = [b EXCEPT !.rest = rest]
    BY <1>3, <1>4, <2>1 DEF Perform, RoundState
  <2>5. /\ e.c = b.c /\ e.rest = rest /\ e.write = b.write
        /\ e.stop = b.stop /\ e.refresh = b.refresh
    BY <2>4 DEF RoundState
  <2>6. e \in RoundState(m, v)
    BY <2>3, <2>4 DEF RoundState
  <2>7. RoundOK(e, c, k + 1)
    BY <1>4, <2>5 DEF RoundOK
  <2>8. ASSUME Doable(c.queue, c.mem), b.stop = "refresh"
        PROVE  NoDeletion(rest) /\ \E j \in 1..(k + 1) : c.queue[j].kind = "refresh"
    <3>1. PICK j \in 1..k : c.queue[j].kind = "refresh"
      BY <2>8 DEF DeletionsOK
    <3>2. j \in 1..(k + 1) /\ j \in 1..((k + 1) - 1)
      OBVIOUS
    <3>3. op.kind # "delete"
      BY <1>1, <1>2, <2>8, <3>1, <3>2 DEF Doable
    <3>4. NoDeletion(b.rest)
      BY <2>8 DEF DeletionsOK
    <3>5. \A i \in DOMAIN rest : rest[i] = op \/ (i \in DOMAIN b.rest /\ rest[i] = b.rest[i])
      BY <1>2, <2>1, <2>2
    <3>6. NoDeletion(rest)
      BY <3>3, <3>4, <3>5 DEF NoDeletion
    <3>. QED BY <3>1, <3>2, <3>6
  <2>9. Doable(c.queue, c.mem) => DeletionsOK(e, c, k + 1)
    BY <1>4, <2>5, <2>8 DEF DeletionsOK
  <2>. QED BY <1>1, <1>3, <2>6, <2>7, <2>9
<1>5. CASE b.stop = "no" /\ op.kind = "refresh"
  <2>1. op \in Refreshes
    BY <1>2, <1>5 DEF Op, ItemChanges
  <2>2. e = [b EXCEPT !.stop = "refresh", !.refresh = op]
    BY <1>3, <1>5 DEF Perform
  <2>3. e \in RoundState(m, v)
    BY <2>1, <2>2 DEF RoundState
  <2>4. /\ e.c = b.c /\ e.rest = b.rest /\ e.write = b.write
        /\ e.stop = "refresh" /\ e.refresh = op
    BY <2>2 DEF RoundState
  <2>5. RoundOK(e, c, k + 1)
    BY <1>5, <2>1, <2>4 DEF RoundOK
  <2>6. b.rest = <<>>
    BY <1>5 DEF RoundOK
  <2>7. NoDeletion(e.rest)
    BY <2>4, <2>6 DEF NoDeletion
  <2>8. k + 1 \in 1..(k + 1)
    OBVIOUS
  <2>9. DeletionsOK(e, c, k + 1)
    BY <1>1, <1>5, <2>4, <2>7, <2>8 DEF DeletionsOK
  <2>. QED BY <1>1, <1>3, <2>3, <2>5, <2>9
<1>6. CASE b.stop = "no" /\ op.kind # "refresh"
  <2>1. op \in ItemChanges(m) /\ (op.kind # "delete" => op.new # Absent)
    BY <1>2, <1>6 DEF Op, Refreshes
  <2>2. b.c \in Calendar(m, v)
    BY DEF RoundState
  <2>3. ASSUME NEW d \in Calendar(m, v), Changed(d, b.c, op),
               e = [b EXCEPT !.c = d, !.write = TRUE]
        PROVE  /\ e \in RoundState(m, v) /\ RoundOK(e, c, k + 1)
               /\ Doable(c.queue, c.mem) => DeletionsOK(e, c, k + 1)
    BY <1>1, <1>6, <2>1, <2>3, PerformWrites
  <2>4. ASSUME NEW d, d = Accepted(b.c, op) \/ d = Rejected(b.c, op)
        PROVE  d \in Calendar(m, v) /\ Changed(d, b.c, op)
    BY <2>1, <2>2, <2>4, AcceptedKeeps, RejectedKeeps
  <2>5. CASE op.kind = "add"
    <3>1. PICK d : d = Accepted(b.c, op)
      OBVIOUS
    <3>2. e = [b EXCEPT !.c = d, !.write = TRUE]
      BY <1>3, <1>6, <2>5, <3>1 DEF Perform, RoundState
    <3>3. d \in Calendar(m, v) /\ Changed(d, b.c, op)
      BY <2>4, <3>1
    <3>. QED BY <1>1, <1>3, <2>3, <3>2, <3>3
  <2>6. CASE op.kind = "modify"
    <3>1. PICK d : d = ModifyMemory(b.c, op)
      OBVIOUS
    <3>2. e = [b EXCEPT !.c = d, !.write = TRUE]
      BY <1>3, <1>6, <2>6, <3>1 DEF Perform, RoundState
    <3>3. d = Accepted(b.c, op) \/ d = Rejected(b.c, op)
      BY <3>1 DEF ModifyMemory
    <3>4. d \in Calendar(m, v) /\ Changed(d, b.c, op)
      BY <2>4, <3>3
    <3>. QED BY <1>1, <1>3, <2>3, <3>2, <3>4
  <2>7. CASE op.kind = "delete" /\ b.c.mem[op.item] # Absent
    <3>1. PICK d : d = DeleteMemory(b.c, op)
      OBVIOUS
    <3>2. e = [b EXCEPT !.c = d, !.write = TRUE]
      BY <1>3, <1>6, <2>7, <3>1 DEF Perform, RoundState
    <3>3. d = Accepted(b.c, op) \/ d = Rejected(b.c, op)
      BY <3>1 DEF DeleteMemory
    <3>4. d \in Calendar(m, v) /\ Changed(d, b.c, op)
      BY <2>4, <3>3
    <3>. QED BY <1>1, <1>3, <2>3, <3>2, <3>4
  <2>8. CASE op.kind = "delete" /\ b.c.mem[op.item] = Absent
    <3>1. e = [b EXCEPT !.stop = "threw"]
      BY <1>3, <1>6, <2>8 DEF Perform
    <3>2. e \in RoundState(m, v)
      BY <3>1 DEF RoundState
    <3>3. /\ e.c = b.c /\ e.write = b.write /\ e.stop = "threw"
      BY <3>1 DEF RoundState
    <3>4. RoundOK(e, c, k + 1)
      BY <3>3 DEF RoundOK
    <3>5. ~Doable(c.queue, c.mem)
      <4>1. k + 1 \in (k + 1)..Len(c.queue)
        OBVIOUS
      <4>. QED BY <1>1, <1>6, <2>8, <4>1 DEF DeletionsOK
    <3>. QED BY <1>1, <1>3, <3>2, <3>4, <3>5
  <2>. QED BY <2>1, <2>5, <2>6, <2>7, <2>8 DEF ItemChanges
<1>. QED BY <1>4, <1>5, <1>6

(* A round without deletions that find nothing does not throw, and what it
   leaves has no deletion.                                                 *)
LEMMA RoundKeeps ==
  ASSUME NEW m, NEW v, NEW c \in Calendar(m, v)
  PROVE  /\ Round(c) \in RoundState(m, v)
         /\ RoundOK(Round(c), c, Len(c.queue))
         /\ Doable(c.queue, c.mem) => DeletionsOK(Round(c), c, Len(c.queue))
<1>1. PICK N \in Nat : N = Len(c.queue)
  BY DEF Calendar
<1>2. PICK f : Steps(f, c, N) /\ Round(c) = f[N]
  BY <1>1, RoundIsLastStep
<1>. DEFINE OK(k) ==
       /\ f[k] \in RoundState(m, v) /\ RoundOK(f[k], c, k)
       /\ Doable(c.queue, c.mem) => DeletionsOK(f[k], c, k)
<1>3. OK(0)
  <2>1. f[0] = Begun(c)
    BY <1>2 DEF Steps
  <2>. QED BY <2>1, BegunIsOK
<1>4. ASSUME NEW k \in 0..N, k + 1 \in 0..N, OK(k) PROVE OK(k + 1)
  <2>1. k + 1 \in 1..Len(c.queue) /\ k \in Nat /\ k + 1 # 0 /\ (k + 1) - 1 = k
    BY <1>1, <1>4
  <2>2. f[k + 1] = Perform(f[k], c.queue[k + 1])
    BY <1>2, <1>4, <2>1 DEF Steps
  <2>. QED BY <1>4, <2>1, <2>2, PerformKeeps
<1>. HIDE DEF OK
<1>5. PICK S : S = {k \in 0..N : OK(k)}
  OBVIOUS
<1>6. 0 \in S /\ \A k \in 0..N : k \in S /\ k + 1 \in 0..N => k + 1 \in S
  BY <1>3, <1>4, <1>5
<1>7. OK(N)
  BY <1>5, <1>6, UpTo
<1>. QED BY <1>1, <1>2, <1>7 DEF OK

-----------------------------------------------------------------------------
(* Waiting, and the queue.                                                 *)

SameQueue(d, c) ==
  /\ d.queue = c.queue /\ d.actions = c.actions /\ d.mem = c.mem
  /\ d.locked = c.locked

LEMMA AwaitKeeps ==
  ASSUME NEW m, NEW v, NEW c \in Calendar(m, v), NEW b \in Callback
  PROVE  /\ Await(c, b) \in Calendar(m, v) /\ SameQueue(Await(c, b), c)
         /\ c.pending = Nothing => Await(c, b).pending = Only(b)
<1>1. PICK pending : pending = [c.pending EXCEPT ![b] = @ + 1]
  OBVIOUS
<1>2. c.pending \in [Callback -> Nat]
  BY DEF Calendar
<1>3. pending \in [Callback -> Nat]
  BY <1>1, <1>2
<1>4. PICK d : d = [c EXCEPT !.pending = pending]
  OBVIOUS
<1>5. d = Await(c, b)
  BY <1>1, <1>4 DEF Await, Calendar
<1>6. d \in Calendar(m, v)
  BY <1>3, <1>4 DEF Calendar
<1>7. SameQueue(d, c) /\ d.pending = pending
  BY <1>4 DEF Calendar, SameQueue
<1>8. c.pending = Nothing => pending = Only(b)
  BY <1>1 DEF Nothing, Only
<1>. QED BY <1>5, <1>6, <1>7, <1>8

LEMMA ReceivedKeeps ==
  ASSUME NEW m, NEW v, NEW c \in Calendar(m, v), NEW b \in Callback,
         c.pending[b] > 0
  PROVE  /\ Received(c, b) \in Calendar(m, v) /\ SameQueue(Received(c, b), c)
         /\ c.pending = Only(b) => Received(c, b).pending = Nothing
<1>1. PICK pending : pending = [c.pending EXCEPT ![b] = @ - 1]
  OBVIOUS
<1>2. c.pending \in [Callback -> Nat]
  BY DEF Calendar
<1>3. pending \in [Callback -> Nat]
  BY <1>1, <1>2
<1>4. PICK d : d = [c EXCEPT !.pending = pending]
  OBVIOUS
<1>5. d = Received(c, b)
  BY <1>1, <1>4 DEF Received, Calendar
<1>6. d \in Calendar(m, v)
  BY <1>3, <1>4 DEF Calendar
<1>7. SameQueue(d, c) /\ d.pending = pending
  BY <1>4 DEF Calendar, SameQueue
<1>8. c.pending = Only(b) => pending = Nothing
  BY <1>1 DEF Nothing, Only
<1>. QED BY <1>5, <1>6, <1>7, <1>8

LEMMA OnlyOne ==
  ASSUME NEW b \in Callback
  PROVE  /\ Only(b)[b] = 1
         /\ \A d \in Callback : /\ Nothing[d] = 0
                                /\ Only(b)[d] > 0 => d = b
                                /\ d # b => Only(b)[d] = 0
BY DEF Only, Nothing

LEMMA Callbacks ==
  /\ "get" \in Callback /\ "backup" \in Callback /\ "put" \in Callback
  /\ "answer" \in Callback /\ "etag" \in Callback
BY DEF Callback

(* What processQueue may begin with, and what it leaves: a calendar that is
   idle, or waits for a download or the beginning of an upload.            *)
Ready(c) ==
  /\ ~c.locked /\ c.pending = Nothing /\ c.actions = <<>>
  /\ Doable(c.queue, c.mem)

Calm(c) ==
  /\ Orderly(c)
  /\ c.pending["put"] = 0 /\ c.pending["answer"] = 0 /\ c.pending["etag"] = 0

LEMMA NoDeletionIsDoable ==
  ASSUME NEW q, NEW mem, NoDeletion(q)
  PROVE  Doable(q, mem)
BY DEF NoDeletion, Doable

LEMMA WriteKeeps ==
  ASSUME NEW m, NEW v, NEW c \in Calendar(m, v)
  PROVE  /\ WriteICS(c) \in Calendar(m, v)
         /\ c.pending = Nothing /\ NoDeletion(c.queue) => Calm(WriteICS(c))
<1>1. PICK d : d = [c EXCEPT !.locked = TRUE]
  OBVIOUS
<1>2. d \in Calendar(m, v) /\ WriteICS(c) = Await(d, "backup")
  BY <1>1 DEF Calendar, WriteICS, Lock
<1>3. /\ d.locked /\ d.pending = c.pending /\ d.queue = c.queue
  BY <1>1 DEF Calendar
<1>4. PICK e : e = Await(d, "backup")
  OBVIOUS
<1>5. /\ e \in Calendar(m, v) /\ SameQueue(e, d)
      /\ d.pending = Nothing => e.pending = Only("backup")
  BY <1>2, <1>4, AwaitKeeps, Callbacks
<1>6. ASSUME c.pending = Nothing, NoDeletion(c.queue) PROVE Calm(e)
  <2>1. e.pending = Only("backup") /\ e.locked /\ e.queue = c.queue
    BY <1>3, <1>5, <1>6 DEF SameQueue
  <2>2. Doable(e.queue, e.mem)
    BY <1>6, <2>1, NoDeletionIsDoable
  <2>3. /\ e.pending["get"] = 0 /\ e.pending["put"] = 0
        /\ e.pending["answer"] = 0 /\ e.pending["etag"] = 0
    BY <2>1, Callbacks DEF Only
  <2>. QED BY <2>1, <2>2, <2>3, Callbacks DEF Calm, Orderly
<1>. QED BY <1>2, <1>4, <1>5, <1>6

LEMMA DoRefreshKeeps ==
  ASSUME NEW m, NEW v \in Nat, NEW c \in Calendar(m, v), NEW forced \in BOOLEAN
  PROVE  /\ DoRefresh(c, forced) \in Calendar(m, v)
         /\ c.pending = Nothing /\ NoDeletion(c.queue) /\ c.actions = <<>>
              => Calm(DoRefresh(c, forced))
<1>1. PICK known \in 0..v : known = IF forced THEN 0 ELSE LastSeen(c)
  BY DEF Calendar, LastSeen
<1>2. PICK d : d = [c EXCEPT !.locked = TRUE, !.known = known]
  OBVIOUS
<1>3. d \in Calendar(m, v) /\ DoRefresh(c, forced) = Await(d, "get")
  BY <1>1, <1>2 DEF Calendar, DoRefresh, Lock
<1>4. /\ d.locked /\ d.pending = c.pending /\ d.queue = c.queue
      /\ d.actions = c.actions
  BY <1>2 DEF Calendar
<1>5. PICK e : e = Await(d, "get")
  OBVIOUS
<1>6. /\ e \in Calendar(m, v) /\ SameQueue(e, d)
      /\ d.pending = Nothing => e.pending = Only("get")
  BY <1>3, <1>5, AwaitKeeps, Callbacks
<1>7. ASSUME c.pending = Nothing, NoDeletion(c.queue), c.actions = <<>> PROVE Calm(e)
  <2>1. /\ e.pending = Only("get") /\ e.locked /\ e.queue = c.queue
        /\ e.actions = <<>>
    BY <1>4, <1>6, <1>7 DEF SameQueue
  <2>2. Doable(e.queue, e.mem)
    BY <1>7, <2>1, NoDeletionIsDoable
  <2>3. /\ e.pending["put"] = 0
        /\ e.pending["answer"] = 0 /\ e.pending["etag"] = 0
    BY <2>1, Callbacks DEF Only
  <2>. QED BY <1>7, <2>1, <2>2, <2>3, Callbacks DEF Calm, Orderly
<1>. QED BY <1>3, <1>5, <1>6, <1>7

LEMMA ProcessQueueKeeps ==
  ASSUME NEW m, NEW v \in Nat, NEW c \in Calendar(m, v)
  PROVE  /\ ProcessQueue(c) \in Calendar(m, v)
         /\ c.locked => ProcessQueue(c) = c
         /\ Ready(c) => Calm(ProcessQueue(c))
<1>1. CASE c.locked
  BY <1>1 DEF ProcessQueue, Ready
<1>2. CASE ~c.locked
  <2>1. PICK b : b = Round(c)
    OBVIOUS
  <2>2. /\ b \in RoundState(m, v) /\ RoundOK(b, c, Len(c.queue))
        /\ Doable(c.queue, c.mem) => DeletionsOK(b, c, Len(c.queue))
    BY <2>1, RoundKeeps
  <2>3. PICK left : left = [b.c EXCEPT !.queue = b.rest]
    OBVIOUS
  <2>4. left \in Calendar(m, v)
    BY <2>2, <2>3 DEF RoundState, Calendar
  <2>5. /\ left.queue = b.rest /\ left.pending = c.pending
        /\ left.locked = c.locked /\ left.actions = b.c.actions
    BY <2>2, <2>3 DEF RoundState, RoundOK, SameLock, Calendar
  <2>6. ProcessQueue(c) =
          CASE b.stop = "threw" -> left
            [] b.stop # "threw" /\ b.write ->
                 WriteICS(IF b.stop = "refresh"
                          THEN [left EXCEPT !.queue = <<b.refresh>> \o @] ELSE left)
            [] b.stop = "refresh" /\ ~b.write -> DoRefresh(left, b.refresh.forced)
            [] OTHER -> left
    BY <1>2, <2>1, <2>3 DEF ProcessQueue
  <2>7. Ready(c) => b.stop # "threw" /\ (b.stop = "refresh" => NoDeletion(b.rest))
    BY <2>2 DEF Ready, DeletionsOK
  <2>8. NoDeletion(<<>>)
    BY DEF NoDeletion
  <2>9. CASE b.stop = "threw"
    BY <1>2, <2>4, <2>6, <2>7, <2>9
  <2>10. CASE b.stop = "refresh" /\ b.write
    <3>1. PICK queue : queue = <<b.refresh>> \o b.rest
      OBVIOUS
    <3>2. b.rest \in Seq(Op(m)) /\ b.refresh \in Op(m) /\ b.refresh.kind = "refresh"
      BY <2>2, <2>10 DEF RoundState, RoundOK, Op, Refreshes
    <3>3. queue \in Seq(Op(m))
      BY <3>1, <3>2
    <3>4. PICK d : d = [left EXCEPT !.queue = queue]
      OBVIOUS
    <3>5. d \in Calendar(m, v) /\ d.queue = queue /\ d.pending = left.pending
      BY <2>4, <3>3, <3>4 DEF Calendar
    <3>6. ProcessQueue(c) = WriteICS(d)
      BY <2>4, <2>5, <2>6, <2>10, <3>1, <3>4 DEF Calendar
    <3>7. \A k \in DOMAIN queue :
            queue[k] = b.refresh \/ (k - 1 \in DOMAIN b.rest /\ queue[k] = b.rest[k - 1])
      BY <3>1, <3>2
    <3>8. Ready(c) => NoDeletion(queue)
      BY <2>7, <2>10, <3>2, <3>7 DEF NoDeletion
    <3>9. /\ WriteICS(d) \in Calendar(m, v)
          /\ d.pending = Nothing /\ NoDeletion(d.queue) => Calm(WriteICS(d))
      BY <3>5, WriteKeeps
    <3>. QED BY <1>2, <2>5, <3>5, <3>6, <3>8, <3>9 DEF Ready
  <2>11. CASE b.stop = "no" /\ b.write
    <3>1. ProcessQueue(c) = WriteICS(left)
      BY <2>6, <2>11
    <3>2. left.queue = <<>>
      BY <2>2, <2>5, <2>11 DEF RoundOK
    <3>3. /\ WriteICS(left) \in Calendar(m, v)
          /\ left.pending = Nothing /\ NoDeletion(left.queue) => Calm(WriteICS(left))
      BY <2>4, WriteKeeps
    <3>. QED BY <1>2, <2>5, <2>8, <3>1, <3>2, <3>3 DEF Ready
  <2>12. CASE b.stop = "refresh" /\ ~b.write
    <3>1. PICK forced : forced = b.refresh.forced
      OBVIOUS
    <3>2. forced \in BOOLEAN
      BY <2>2, <2>12, <3>1 DEF RoundOK, Refreshes
    <3>3. ProcessQueue(c) = DoRefresh(left, forced)
      BY <2>6, <2>12, <3>1
    <3>4. /\ DoRefresh(left, forced) \in Calendar(m, v)
          /\ left.pending = Nothing /\ NoDeletion(left.queue) /\ left.actions = <<>>
               => Calm(DoRefresh(left, forced))
      BY <2>4, <3>2, DoRefreshKeeps
    <3>5. left.actions = c.actions
      BY <2>2, <2>5, <2>12 DEF RoundOK
    <3>. QED BY <1>2, <2>5, <2>7, <2>12, <3>3, <3>4, <3>5 DEF Ready
  <2>13. CASE b.stop = "no" /\ ~b.write
    <3>1. ProcessQueue(c) = left
      BY <2>6, <2>13
    <3>2. left.queue = <<>> /\ left.actions = c.actions
      BY <2>2, <2>5, <2>13 DEF RoundOK
    <3>3. Nothing["put"] = 0 /\ Nothing["answer"] = 0 /\ Nothing["etag"] = 0
      BY Callbacks DEF Nothing
    <3>4. Ready(c) => Calm(left)
      BY <2>5, <3>2, <3>3 DEF Ready, Calm, Orderly
    <3>. QED BY <1>2, <2>4, <3>1, <3>4
  <2>. QED BY <2>2, <2>9, <2>10, <2>11, <2>12, <2>13 DEF RoundState
<1>. QED BY <1>1, <1>2

(* A request may follow what waits: the item it deletes will be there.     *)
MayFollow(op, c) ==
  op.kind = "delete" =>
    /\ c.mem[op.item] # Absent /\ c.pending["get"] = 0
    /\ \A k \in DOMAIN c.queue :
         /\ c.queue[k].kind # "refresh"
         /\ c.queue[k].kind = "delete" => c.queue[k].item # op.item

Queued(c, op) == [c EXCEPT !.queue = Append(@, op)]

LEMMA AppendKeeps ==
  ASSUME NEW m, NEW v, NEW c \in Calendar(m, v), NEW op \in Op(m),
         NEW d, d = Queued(c, op)
  PROVE  /\ d \in Calendar(m, v) /\ d.queue = Append(c.queue, op)
         /\ d.locked = c.locked /\ d.pending = c.pending
         /\ d.actions = c.actions /\ d.mem = c.mem
         /\ MayFollow(op, c) /\ Doable(c.queue, c.mem) => Doable(d.queue, d.mem)
         /\ op.kind # "delete" /\ NoDeletion(c.queue) => NoDeletion(d.queue)
<1>1. PICK queue : queue = Append(c.queue, op)
  OBVIOUS
<1>2. d = [c EXCEPT !.queue = queue]
  BY <1>1 DEF Queued, Calendar
<1>4. PICK n \in Nat : n = Len(c.queue)
  BY DEF Calendar
<1>5. /\ queue \in Seq(Op(m)) /\ DOMAIN queue = 1..(n + 1)
      /\ DOMAIN c.queue = 1..n /\ queue[n + 1] = op
      /\ \A k \in 1..n : queue[k] = c.queue[k]
  BY <1>1, <1>4 DEF Calendar
<1>6. d \in Calendar(m, v)
  BY <1>2, <1>5 DEF Calendar
<1>7. /\ d.queue = queue /\ d.locked = c.locked /\ d.pending = c.pending
      /\ d.actions = c.actions /\ d.mem = c.mem
  BY <1>2 DEF Calendar
<1>8. ASSUME MayFollow(op, c), Doable(c.queue, c.mem) PROVE Doable(queue, c.mem)
  <2>. SUFFICES ASSUME NEW k \in 1..(n + 1), queue[k].kind = "delete"
                PROVE  /\ c.mem[queue[k].item] # Absent
                       /\ \A j \in 1..(k - 1) :
                            /\ queue[j].kind # "refresh"
                            /\ queue[j].kind = "delete" => queue[j].item # queue[k].item
    BY <1>5 DEF Doable
  <2>1. \A j \in 1..(k - 1) : j \in 1..n /\ queue[j] = c.queue[j]
    BY <1>5
  <2>2. CASE k = n + 1
    BY <1>5, <1>8, <2>1, <2>2 DEF MayFollow
  <2>3. CASE k # n + 1
    <3>1. k \in 1..n /\ queue[k] = c.queue[k]
      BY <1>5, <2>3
    <3>. QED BY <1>5, <1>8, <2>1, <3>1 DEF Doable
  <2>. QED BY <2>2, <2>3
<1>9. op.kind # "delete" /\ NoDeletion(c.queue) => NoDeletion(queue)
  BY <1>5 DEF NoDeletion
<1>. QED BY <1>1, <1>6, <1>7, <1>8, <1>9

(* A request waits for the lock or is performed at once.                   *)
LEMMA EnqueueKeeps ==
  ASSUME NEW m, NEW v \in Nat, NEW c \in Calendar(m, v), NEW op \in Op(m)
  PROVE  /\ Enqueue(c, op) \in Calendar(m, v)
         /\ Orderly(c) /\ MayFollow(op, c) =>
              /\ Orderly(Enqueue(c, op))
              /\ c.locked => /\ Enqueue(c, op).pending = c.pending
                             /\ Enqueue(c, op).actions = c.actions
              /\ ~c.locked => Calm(Enqueue(c, op))
<1>1. PICK d : d = Queued(c, op)
  OBVIOUS
<1>2. /\ d \in Calendar(m, v) /\ d.queue = Append(c.queue, op)
      /\ d.locked = c.locked /\ d.pending = c.pending
      /\ d.actions = c.actions /\ d.mem = c.mem
      /\ MayFollow(op, c) /\ Doable(c.queue, c.mem) => Doable(d.queue, d.mem)
      /\ op.kind # "delete" /\ NoDeletion(c.queue) => NoDeletion(d.queue)
  BY <1>1, AppendKeeps
<1>3. Enqueue(c, op) = ProcessQueue(d)
  BY <1>1 DEF Enqueue, Queued
<1>4. /\ ProcessQueue(d) \in Calendar(m, v)
      /\ d.locked => ProcessQueue(d) = d
      /\ Ready(d) => Calm(ProcessQueue(d))
  BY <1>2, ProcessQueueKeeps
<1>5. ASSUME Orderly(c), MayFollow(op, c), c.locked
      PROVE  /\ Orderly(Enqueue(c, op))
             /\ Enqueue(c, op).pending = c.pending
             /\ Enqueue(c, op).actions = c.actions
  <2>1. Enqueue(c, op) = d /\ d.locked
    BY <1>2, <1>3, <1>4, <1>5
  <2>2. Doable(d.queue, d.mem)
    BY <1>2, <1>5 DEF Orderly
  <2>3. c.pending["get"] = 1 => op.kind # "delete"
    BY <1>5 DEF MayFollow
  <2>4. d.pending["get"] = 1 => d.actions = <<>> /\ NoDeletion(d.queue)
    BY <1>2, <1>5, <2>3 DEF Orderly
  <2>5. \/ \E b \in Callback : d.pending = Only(b)
        \/ d.pending = Nothing /\ Has("badAnswer")
    BY <1>2, <1>5 DEF Orderly
  <2>. QED BY <1>2, <2>1, <2>2, <2>4, <2>5 DEF Orderly
<1>6. ASSUME Orderly(c), MayFollow(op, c), ~c.locked
      PROVE  Calm(Enqueue(c, op))
  <2>1. c.queue = <<>> /\ c.actions = <<>> /\ c.pending = Nothing
    BY <1>6 DEF Orderly
  <2>2. Doable(c.queue, c.mem)
    BY <2>1 DEF Doable
  <2>3. Ready(d)
    BY <1>2, <1>6, <2>1, <2>2 DEF Ready
  <2>. QED BY <1>3, <1>4, <2>3
<1>. QED BY <1>3, <1>4, <1>5, <1>6 DEF Calm

-----------------------------------------------------------------------------
(* The lock.                                                               *)

LEMMA ReleasedKeeps ==
  ASSUME NEW m, NEW v, NEW c \in Calendar(m, v)
  PROVE  /\ Released(c) \in Calendar(m, v) /\ ~Released(c).locked
         /\ Released(c).actions = <<>> /\ Released(c).queue = c.queue
         /\ Released(c).pending = c.pending /\ Released(c).mem = c.mem
<1>1. PICK d : d = [c EXCEPT !.actions = <<>>, !.locked = FALSE]
  OBVIOUS
<1>2. d \in Calendar(m, v)
  <2>1. <<>> \in Seq(Action)
    OBVIOUS
  <2>. QED BY <1>1, <2>1 DEF Calendar
<1>3. /\ ~d.locked /\ d.actions = <<>> /\ d.queue = c.queue
      /\ d.pending = c.pending /\ d.mem = c.mem
  BY <1>1 DEF Calendar
<1>. QED BY <1>1, <1>2, <1>3 DEF Released

ActionsStored(c) ==
  \A k \in DOMAIN c.actions : c.actions[k].ok => c.actions[k].n \in stored

LEMMA AnswersKeep ==
  ASSUME answer \in [Change -> {"none", "ok", "failed"}], NEW c,
         NEW failed \in BOOLEAN
  PROVE  /\ Answers(c, failed) \in [Change -> {"none", "ok", "failed"}]
         /\ AnswersKept /\ (failed \/ ActionsStored(c)) =>
              \A n \in Change : Answers(c, failed)[n] = "ok" => n \in stored
<1>1. PICK told : told = Answers(c, failed)
  OBVIOUS
<1>2. ASSUME NEW n \in Change
      PROVE  /\ told[n] \in {"none", "ok", "failed"}
             /\ told[n] = "ok" =>
                  \/ answer[n] = "ok"
                  \/ ~failed /\ \E k \in DOMAIN c.actions :
                                  c.actions[k].n = n /\ c.actions[k].ok
  BY <1>1 DEF Answers
<1>3. told \in [Change -> {"none", "ok", "failed"}]
  BY <1>1, <1>2 DEF Answers
<1>4. ASSUME AnswersKept, failed \/ ActionsStored(c), NEW n \in Change, told[n] = "ok"
      PROVE  n \in stored
  BY <1>2, <1>4 DEF AnswersKept, ActionsStored
<1>. QED BY <1>1, <1>3, <1>4

(* When nothing is awaited, an unlock leaves the calendar in order, and
   tells of no success but those that are stored.                          *)
LEMMA UnlockKeeps ==
  ASSUME answer \in [Change -> {"none", "ok", "failed"}],
         NEW m, NEW v \in Nat, NEW c \in Calendar(m, v), NEW failed \in BOOLEAN,
         Unlock(c, failed)
  PROVE  /\ cal' \in Calendar(m, v)
         /\ answer' \in [Change -> {"none", "ok", "failed"}]
         /\ c.pending = Nothing /\ Doable(c.queue, c.mem) => Calm(cal')
         /\ AnswersKept /\ (failed \/ ActionsStored(c)) =>
              \A n \in Change : answer'[n] = "ok" => n \in stored
<1>1. PICK d : d = Released(c)
  OBVIOUS
<1>2. /\ d \in Calendar(m, v) /\ ~d.locked /\ d.actions = <<>>
      /\ d.queue = c.queue /\ d.pending = c.pending /\ d.mem = c.mem
  BY <1>1, ReleasedKeeps
<1>3. cal' = ProcessQueue(d) /\ answer' = Answers(c, failed)
  BY <1>1 DEF Unlock
<1>4. /\ ProcessQueue(d) \in Calendar(m, v)
      /\ Ready(d) => Calm(ProcessQueue(d))
  BY <1>2, ProcessQueueKeeps
<1>5. c.pending = Nothing /\ Doable(c.queue, c.mem) => Ready(d)
  BY <1>2 DEF Ready
<1>. QED BY <1>3, <1>4, <1>5, AnswersKeep

LEMMA ReadOnlyKeeps ==
  ASSUME NEW m, NEW v, NEW c \in Calendar(m, v)
  PROVE  /\ ReadOnly(c) \in Calendar(m, v) /\ SameQueue(ReadOnly(c), c)
         /\ ReadOnly(c).pending = c.pending
<1>1. PICK d : d = [c EXCEPT !.readOnly = TRUE]
  OBVIOUS
<1>2. d \in Calendar(m, v)
  BY <1>1 DEF Calendar
<1>3. SameQueue(d, c) /\ d.pending = c.pending
  BY <1>1 DEF Calendar, SameQueue
<1>. QED BY <1>1, <1>2, <1>3 DEF ReadOnly

LEMMA RefreshIsOp ==
  ASSUME NEW m, NEW forced \in BOOLEAN
  PROVE  /\ [kind |-> "refresh", forced |-> forced] \in Op(m)
         /\ \A c : MayFollow([kind |-> "refresh", forced |-> forced], c)
BY DEF Op, Refreshes, MayFollow

(* A failed upload, which leaves a refresh at the end of the queue.        *)
LEMMA PutFailsKeeps ==
  ASSUME answer \in [Change -> {"none", "ok", "failed"}],
         NEW m, NEW v \in Nat, NEW c \in Calendar(m, v), PutFails(c)
  PROVE  /\ cal' \in Calendar(m, v)
         /\ answer' \in [Change -> {"none", "ok", "failed"}]
         /\ c.locked /\ c.pending = Nothing /\ Doable(c.queue, c.mem) => Calm(cal')
         /\ c.locked /\ AnswersKept =>
              \A n \in Change : answer'[n] = "ok" => n \in stored
<1>1. PICK r : r = ReadOnly(c)
  OBVIOUS
<1>2. r \in Calendar(m, v) /\ SameQueue(r, c) /\ r.pending = c.pending
  BY <1>1, ReadOnlyKeeps
<1>3. PICK op : op = [kind |-> "refresh", forced |-> TRUE]
  OBVIOUS
<1>4. op \in Op(m) /\ MayFollow(op, r)
  BY <1>3, RefreshIsOp
<1>5. PICK d : d = Queued(r, op)
  OBVIOUS
<1>6. /\ d \in Calendar(m, v) /\ d.locked = r.locked /\ d.pending = r.pending
      /\ Doable(r.queue, r.mem) => Doable(d.queue, d.mem)
  BY <1>2, <1>4, <1>5, AppendKeeps
<1>7. PICK p : p = ProcessQueue(d)
  OBVIOUS
<1>8. p \in Calendar(m, v) /\ (d.locked => p = d)
  BY <1>6, <1>7, ProcessQueueKeeps
<1>9. Unlock(p, TRUE)
  BY <1>1, <1>3, <1>5, <1>7 DEF PutFails, Queued
<1>10. /\ cal' \in Calendar(m, v)
       /\ answer' \in [Change -> {"none", "ok", "failed"}]
       /\ p.pending = Nothing /\ Doable(p.queue, p.mem) => Calm(cal')
       /\ AnswersKept => \A n \in Change : answer'[n] = "ok" => n \in stored
  BY <1>8, <1>9, UnlockKeeps
<1>11. c.locked /\ c.pending = Nothing /\ Doable(c.queue, c.mem) =>
         p.pending = Nothing /\ Doable(p.queue, p.mem)
  BY <1>2, <1>6, <1>8 DEF SameQueue
<1>. QED BY <1>10, <1>11

-----------------------------------------------------------------------------
(* The steps.                                                              *)

LEMMA TypesGrow ==
  ASSUME NEW m \in Nat, NEW n \in Nat, m <= n, NEW v \in Nat, NEW w \in Nat, v <= w
  PROVE  Calendar(m, v) \subseteq Calendar(n, w) /\ File(m) \subseteq File(n)
<1>1. Holding(m) \subseteq Holding(n) /\ 0..v \subseteq 0..w
  BY HoldingGrows
<1>2. Op(m) \subseteq Op(n)
  BY <1>1 DEF Op, ItemChanges
<1>3. Seq(Op(m)) \subseteq Seq(Op(n))
  BY <1>2
<1>. HIDE DEF Op
<1>4. [Item -> Holding(m)] \subseteq [Item -> Holding(n)]
  BY <1>1
<1>. QED BY <1>1, <1>3, <1>4 DEF Calendar, File

LEMMA TypesNow ==
  ASSUME Types
  PROVE  /\ made.changes \in Nat /\ file.version \in Nat
         /\ cal \in Calendar(made.changes, file.version)
         /\ answer \in [Change -> {"none", "ok", "failed"}]
BY ICSAssumption DEF Types, File, ICSAssumption

LEMMA WaitsForOne ==
  ASSUME NEW c, Orderly(c), NEW b \in Callback, c.pending[b] > 0
  PROVE  /\ c.locked /\ c.pending = Only(b) /\ Doable(c.queue, c.mem)
         /\ b = "get" => c.actions = <<>> /\ NoDeletion(c.queue)
<1>1. c.locked
  BY OnlyOne DEF Orderly
<1>2. PICK d \in Callback : c.pending = Only(d)
  BY <1>1, OnlyOne DEF Orderly
<1>3. d = b
  BY <1>2, OnlyOne
<1>4. c.pending[b] = 1
  BY <1>2, <1>3, OnlyOne
<1>. QED BY <1>1, <1>2, <1>3, <1>4 DEF Orderly

LEMMA OrderlyNext ==
  ASSUME case' = case, Orderly(cal')
  PROVE  Orderly(cal)'
BY DEF Orderly, Doable, NoDeletion, Has

(* A step that leaves the calendar calm, and what was answered stored.     *)
LEMMA CalmStep ==
  ASSUME Types', case' = case,
         Without({"gone"}) =>
           Calm(cal') /\ \A n \in Change : answer'[n] = "ok" => n \in stored'
  PROVE  Inv'
<1>1. Without({"gone"})' <=> Without({"gone"})
  BY DEF Without
<1>2. ASSUME Calm(cal') PROVE Orderly(cal)' /\ Kept(cal)'
  BY <1>2, OrderlyNext DEF Calm, Kept
<1>3. (\A n \in Change : answer'[n] = "ok" => n \in stored') => AnswersKept'
  BY DEF AnswersKept
<1>. QED BY <1>1, <1>2, <1>3 DEF Inv

(* The unlock of a calendar that waited for one callback, which has come.  *)
LEMMA UnlockStep ==
  ASSUME Inv, NEW c \in Calendar(made.changes, file.version), NEW failed \in BOOLEAN,
         Unlock(c, failed), UNCHANGED <<case, file, made, stored, unasked>>,
         Without({"gone"}) =>
           /\ c.pending = Nothing /\ Doable(c.queue, c.mem)
           /\ failed \/ ActionsStored(c)
  PROVE  Inv'
<1>1. Types
  BY DEF Inv
<1>2. /\ cal' \in Calendar(made.changes, file.version)
      /\ answer' \in [Change -> {"none", "ok", "failed"}]
      /\ c.pending = Nothing /\ Doable(c.queue, c.mem) => Calm(cal')
      /\ AnswersKept /\ (failed \/ ActionsStored(c)) =>
           \A n \in Change : answer'[n] = "ok" => n \in stored
  BY <1>1, TypesNow, UnlockKeeps
<1>3. Types'
  BY <1>1, <1>2 DEF Types
<1>4. Without({"gone"}) => AnswersKept
  BY DEF Inv
<1>. QED BY <1>2, <1>3, <1>4, CalmStep

LEMMA GetAnsweredKeeps == ASSUME Inv, GetAnswered PROVE Inv'
<1>1. /\ made.changes \in Nat /\ file.version \in Nat
      /\ cal \in Calendar(made.changes, file.version)
      /\ file \in File(made.changes) /\ cal.pending["get"] > 0
  BY TypesNow DEF Inv, Types, GetAnswered
<1>2. PICK m : m = made.changes
  OBVIOUS
<1>3. PICK v \in Nat : v = file.version
  BY <1>1
<1>4. PICK c : c = Received(cal, "get")
  OBVIOUS
<1>5. /\ c \in Calendar(m, v) /\ SameQueue(c, cal)
      /\ cal.pending = Only("get") => c.pending = Nothing
  BY <1>1, <1>2, <1>3, <1>4, ReceivedKeeps, Callbacks
<1>6. Without({"gone"}) =>
        /\ c.pending = Nothing /\ c.actions = <<>> /\ NoDeletion(c.queue)
  BY <1>1, <1>5, WaitsForOne, Callbacks DEF Inv, SameQueue
<1>7. ASSUME NEW x \in Calendar(m, v), x.pending = c.pending, x.queue = c.queue,
             x.actions = c.actions, Unlock(x, FALSE)
      PROVE  Inv'
  <2>1. UNCHANGED <<case, file, made, stored, unasked>>
    BY DEF GetAnswered
  <2>2. Without({"gone"}) =>
          x.pending = Nothing /\ Doable(x.queue, x.mem) /\ ActionsStored(x)
    BY <1>6, <1>7, NoDeletionIsDoable DEF ActionsStored
  <2>. QED BY <1>2, <1>3, <1>7, <2>1, <2>2, UnlockStep
<1>8. PICK etag \in 0..v : etag = IF Http /\ Has("unversioned") THEN 0 ELSE v
  OBVIOUS
<1>9. PICK seen : seen = [c EXCEPT !.modified = v, !.etag = etag]
  OBVIOUS
<1>10. seen \in Calendar(m, v)
  <2>1. v \in 0..v
    OBVIOUS
  <2>. QED BY <1>5, <1>9, <2>1 DEF Calendar
<1>11. /\ seen.pending = c.pending /\ seen.queue = c.queue
       /\ seen.actions = c.actions
  BY <1>5, <1>9 DEF Calendar
<1>12. CASE Unlock(c, FALSE)
  BY <1>5, <1>7, <1>12
<1>13. CASE Unlock(ReadOnly(seen), FALSE)
  <2>1. PICK x : x = ReadOnly(seen)
    OBVIOUS
  <2>2. x \in Calendar(m, v) /\ SameQueue(x, seen) /\ x.pending = seen.pending
    BY <1>10, <2>1, ReadOnlyKeeps
  <2>. QED BY <1>7, <1>11, <1>13, <2>1, <2>2 DEF SameQueue
<1>14. ASSUME NEW mem \in [Item -> Holding(m)],
              Unlock([seen EXCEPT !.mem = mem, !.loaded = TRUE], FALSE)
       PROVE  Inv'
  <2>1. PICK x : x = [seen EXCEPT !.mem = mem, !.loaded = TRUE]
    OBVIOUS
  <2>2. x \in Calendar(m, v)
    BY <1>10, <1>14, <2>1 DEF Calendar
  <2>3. /\ x.pending = seen.pending /\ x.queue = seen.queue
        /\ x.actions = seen.actions
    BY <1>10, <2>1 DEF Calendar
  <2>. QED BY <1>7, <1>11, <1>14, <2>1, <2>2, <2>3
<1>15. NoItems \in [Item -> Holding(m)] /\ file.items \in [Item -> Holding(m)]
  BY <1>1, <1>2 DEF NoItems, Holding, File
<1>16. \/ Unlock(c, FALSE) \/ Unlock(ReadOnly(seen), FALSE)
       \/ Unlock([seen EXCEPT !.mem = NoItems, !.loaded = TRUE], FALSE)
       \/ Unlock([seen EXCEPT !.mem = file.items, !.loaded = TRUE], FALSE)
  BY <1>3, <1>4, <1>8, <1>9 DEF GetAnswered
<1>. QED BY <1>12, <1>13, <1>14, <1>15, <1>16

LEMMA BackupDoneKeeps == ASSUME Inv, BackupDone PROVE Inv'
<1>1. /\ made.changes \in Nat /\ file.version \in Nat
      /\ cal \in Calendar(made.changes, file.version)
      /\ answer \in [Change -> {"none", "ok", "failed"}]
      /\ cal.pending["backup"] > 0
  BY TypesNow DEF Inv, BackupDone
<1>2. PICK m : m = made.changes
  OBVIOUS
<1>3. PICK v \in Nat : v = file.version
  BY <1>1
<1>4. PICK c : c = Received(cal, "backup")
  OBVIOUS
<1>5. /\ c \in Calendar(m, v) /\ SameQueue(c, cal)
      /\ cal.pending = Only("backup") => c.pending = Nothing
  BY <1>1, <1>2, <1>3, <1>4, ReceivedKeeps, Callbacks
<1>6. Without({"gone"}) =>
        c.locked /\ c.pending = Nothing /\ Doable(c.queue, c.mem)
  BY <1>1, <1>5, WaitsForOne, Callbacks DEF Inv, SameQueue
<1>7. PICK r : r = ReadOnly(c)
  OBVIOUS
<1>8. r \in Calendar(m, v) /\ SameQueue(r, c) /\ r.pending = c.pending
  BY <1>5, <1>7, ReadOnlyKeeps
<1>9. UNCHANGED <<case, file, made, stored, unasked>>
  BY DEF BackupDone
<1>10. CASE Unlock(r, TRUE)
  <2>1. Without({"gone"}) => r.pending = Nothing /\ Doable(r.queue, r.mem)
    BY <1>6, <1>8 DEF SameQueue
  <2>. QED BY <1>2, <1>3, <1>8, <1>9, <1>10, <2>1, UnlockStep
<1>11. CASE answer' = Answers(c, TRUE) /\ cal' = Refresh(ProcessQueue(Released(r)), TRUE)
  <2>1. PICK x : x = Released(r)
    OBVIOUS
  <2>2. /\ x \in Calendar(m, v) /\ ~x.locked /\ x.actions = <<>>
        /\ x.queue = r.queue /\ x.pending = r.pending /\ x.mem = r.mem
    BY <1>8, <2>1, ReleasedKeeps
  <2>3. Without({"gone"}) => Ready(x)
    BY <1>6, <1>8, <2>2 DEF SameQueue, Ready
  <2>4. PICK y : y = ProcessQueue(x)
    OBVIOUS
  <2>5. y \in Calendar(m, v) /\ (Ready(x) => Calm(y))
    BY <2>2, <2>4, ProcessQueueKeeps
  <2>6. PICK op : op = [kind |-> "refresh", forced |-> TRUE]
    OBVIOUS
  <2>7. op \in Op(m) /\ MayFollow(op, y)
    BY <2>6, RefreshIsOp
  <2>8. cal' = Enqueue(y, op)
    BY <1>11, <2>1, <2>4, <2>6 DEF Refresh
  <2>9. /\ cal' \in Calendar(m, v)
        /\ Orderly(y) =>
             /\ Orderly(cal')
             /\ y.locked => cal'.pending = y.pending
             /\ ~y.locked => Calm(cal')
    BY <2>5, <2>7, <2>8, EnqueueKeeps
  <2>10. Calm(y) => Calm(cal')
    BY <2>9 DEF Calm
  <2>11. /\ answer' \in [Change -> {"none", "ok", "failed"}]
         /\ AnswersKept => \A n \in Change : answer'[n] = "ok" => n \in stored
    BY <1>1, <1>11, AnswersKeep
  <2>12. Types'
    BY <1>2, <1>3, <1>9, <2>9, <2>11 DEF Inv, Types
  <2>13. Without({"gone"}) => AnswersKept
    BY DEF Inv
  <2>. QED BY <1>9, <2>3, <2>5, <2>10, <2>11, <2>12, <2>13, CalmStep
<1>12. CASE /\ cal' = Await([c EXCEPT !.body = c.mem, !.match = c.etag], "put")
            /\ UNCHANGED answer
  <2>1. PICK x : x = [c EXCEPT !.body = c.mem, !.match = c.etag]
    OBVIOUS
  <2>2. c.mem \in [Item -> Holding(m)] /\ c.etag \in 0..v
    BY <1>5 DEF Calendar
  <2>3. /\ x \in Calendar(m, v) /\ SameQueue(x, c) /\ x.pending = c.pending
    <3>1. x \in Calendar(m, v)
      BY <1>5, <2>1, <2>2 DEF Calendar
    <3>2. SameQueue(x, c) /\ x.pending = c.pending
      BY <1>5, <2>1 DEF Calendar, SameQueue
    <3>. QED BY <3>1, <3>2
  <2>4. /\ cal' \in Calendar(m, v) /\ SameQueue(cal', x)
        /\ x.pending = Nothing => cal'.pending = Only("put")
    <3>1. PICK y : y = Await(x, "put")
      OBVIOUS
    <3>2. /\ y \in Calendar(m, v) /\ SameQueue(y, x)
          /\ x.pending = Nothing => y.pending = Only("put")
      BY <2>3, <3>1, AwaitKeeps, Callbacks
    <3>3. cal' = y
      BY <1>12, <2>1, <3>1
    <3>. QED BY <3>2, <3>3
  <2>5. Types'
    BY <1>2, <1>3, <1>9, <1>12, <2>4 DEF Inv, Types
  <2>6. ASSUME Without({"gone"}) PROVE Orderly(cal)' /\ Kept(cal)' /\ AnswersKept'
    <3>1. /\ cal'.locked /\ cal'.pending = Only("put") /\ Doable(cal'.queue, cal'.mem)
      BY <1>6, <2>3, <2>4, <2>6 DEF SameQueue
    <3>2. /\ cal'.pending["get"] = 0 /\ cal'.pending["answer"] = 0
          /\ cal'.pending["etag"] = 0
      BY <3>1, Callbacks DEF Only
    <3>3. Orderly(cal') /\ Kept(cal)'
      BY <3>1, <3>2, Callbacks DEF Orderly, Kept
    <3>4. Orderly(cal)'
      BY <1>9, <3>3, OrderlyNext
    <3>5. AnswersKept'
      BY <1>9, <1>12, <2>6 DEF Inv, AnswersKept
    <3>. QED BY <3>3, <3>4, <3>5
  <2>7. Without({"gone"})' <=> Without({"gone"})
    BY <1>9 DEF Without
  <2>. QED BY <2>5, <2>6, <2>7 DEF Inv
<1>. QED BY <1>4, <1>7, <1>10, <1>11, <1>12 DEF BackupDone

LEMMA PutStoredKeeps == ASSUME Inv, PutStored PROVE Inv'
<1>1. /\ made.changes \in Nat /\ file.version \in Nat
      /\ cal \in Calendar(made.changes, file.version)
      /\ cal.pending["put"] > 0
  BY TypesNow DEF Inv, PutStored
<1>2. PICK m \in Nat : m = made.changes
  BY <1>1
<1>3. PICK w \in Nat : w = file.version + 1
  BY <1>1
<1>4. cal \in Calendar(m, w)
  BY <1>1, <1>2, <1>3, TypesGrow
<1>5. PICK c : c = [cal EXCEPT !.ours = w]
  OBVIOUS
<1>6. w \in 0..w
  OBVIOUS
<1>7. c \in Calendar(m, w)
  BY <1>4, <1>5, <1>6 DEF Calendar
<1>8. SameQueue(c, cal) /\ c.pending = cal.pending
  BY <1>4, <1>5 DEF Calendar, SameQueue
<1>9. PICK d : d = Received(c, "put")
  OBVIOUS
<1>10. /\ d \in Calendar(m, w) /\ SameQueue(d, c)
       /\ c.pending = Only("put") => d.pending = Nothing
  BY <1>1, <1>7, <1>8, <1>9, ReceivedKeeps, Callbacks
<1>11. PICK e : e = Await(d, "answer")
  OBVIOUS
<1>12. /\ e \in Calendar(m, w) /\ SameQueue(e, d)
       /\ d.pending = Nothing => e.pending = Only("answer")
  BY <1>10, <1>11, AwaitKeeps, Callbacks
<1>13. file' = [items |-> cal.body, version |-> w, form |-> "ok"]
  BY <1>3 DEF PutStored
<1>14. /\ cal' = e
       /\ case' = case /\ made' = made /\ answer' = answer
  BY <1>3, <1>5, <1>9, <1>11, <1>13 DEF PutStored
<1>15. file'.version = w /\ file' \in File(m)
  BY <1>4, <1>13 DEF Calendar, File
<1>16. PICK carried : carried =
         {cal.actions[k].n : k \in {j \in DOMAIN cal.actions : cal.actions[j].ok}}
  OBVIOUS
<1>17. stored' = stored \cup carried
  BY <1>16 DEF PutStored
<1>18. carried \subseteq Change
  <2>1. \A k \in DOMAIN cal.actions : cal.actions[k] \in Action
    BY <1>4 DEF Calendar
  <2>. QED BY <1>16, <2>1 DEF Action
<1>19. PICK others : unasked' = unasked \cup others /\ others \subseteq Item
  BY DEF PutStored
<1>20. Types'
  <2>1. stored' \subseteq Change /\ unasked' \subseteq Item
    BY <1>17, <1>18, <1>19 DEF Inv, Types
  <2>. QED BY <1>2, <1>12, <1>14, <1>15, <2>1 DEF Inv, Types
<1>21. ASSUME Without({"gone"}) PROVE Orderly(cal)' /\ Kept(cal)' /\ AnswersKept'
  <2>1. cal.locked /\ cal.pending = Only("put") /\ Doable(cal.queue, cal.mem)
    BY <1>1, <1>21, WaitsForOne, Callbacks DEF Inv
  <2>2. /\ cal'.locked /\ cal'.pending = Only("answer")
        /\ Doable(cal'.queue, cal'.mem) /\ cal'.actions = cal.actions
    BY <1>8, <1>10, <1>12, <1>14, <2>1 DEF SameQueue
  <2>3. cal'.pending["get"] = 0
    BY <2>2, Callbacks DEF Only
  <2>4. Orderly(cal')
    BY <2>2, <2>3, Callbacks DEF Orderly
  <2>5. Orderly(cal)'
    BY <1>14, <2>4, OrderlyNext
  <2>6. \A k \in DOMAIN cal.actions : cal.actions[k].ok => cal.actions[k].n \in stored'
    BY <1>16, <1>17
  <2>7. Kept(cal)'
    BY <2>2, <2>6 DEF Kept
  <2>8. AnswersKept'
    BY <1>14, <1>17, <1>21 DEF Inv, AnswersKept
  <2>. QED BY <2>5, <2>7, <2>8
<1>22. Without({"gone"})' <=> Without({"gone"})
  BY <1>14 DEF Without
<1>. QED BY <1>20, <1>21, <1>22 DEF Inv

(* A failed upload of a calendar whose callback has come.                  *)
LEMMA PutFailsStep ==
  ASSUME Inv, NEW c \in Calendar(made.changes, file.version), PutFails(c),
         UNCHANGED <<case, file, made, stored, unasked>>,
         Without({"gone"}) =>
           c.locked /\ c.pending = Nothing /\ Doable(c.queue, c.mem)
  PROVE  Inv'
<1>1. Types
  BY DEF Inv
<1>2. /\ cal' \in Calendar(made.changes, file.version)
      /\ answer' \in [Change -> {"none", "ok", "failed"}]
      /\ c.locked /\ c.pending = Nothing /\ Doable(c.queue, c.mem) => Calm(cal')
      /\ c.locked /\ AnswersKept =>
           \A n \in Change : answer'[n] = "ok" => n \in stored
  BY <1>1, TypesNow, PutFailsKeeps
<1>3. Types'
  BY <1>1, <1>2 DEF Types
<1>4. Without({"gone"}) => AnswersKept
  BY DEF Inv
<1>. QED BY <1>2, <1>3, <1>4, CalmStep

LEMMA PutRefusedKeeps == ASSUME Inv, PutRefused PROVE Inv'
<1>1. /\ cal \in Calendar(made.changes, file.version) /\ cal.pending["put"] > 0
  BY TypesNow DEF Inv, PutRefused
<1>2. PICK c : c = Received(cal, "put")
  OBVIOUS
<1>3. /\ c \in Calendar(made.changes, file.version) /\ SameQueue(c, cal)
      /\ cal.pending = Only("put") => c.pending = Nothing
  BY <1>1, <1>2, ReceivedKeeps, Callbacks
<1>4. Without({"gone"}) =>
        c.locked /\ c.pending = Nothing /\ Doable(c.queue, c.mem)
  BY <1>1, <1>3, WaitsForOne, Callbacks DEF Inv, SameQueue
<1>5. PutFails(c) /\ UNCHANGED <<case, file, made, stored, unasked>>
  BY <1>2 DEF PutRefused
<1>. QED BY <1>3, <1>4, <1>5, PutFailsStep

(* The answer to an upload: its unlock throws only where a deletion may
   find its item gone.                                                     *)
LEMMA PutAnsweredKeeps == ASSUME Inv, PutAnswered PROVE Inv'
<1>1. /\ made.changes \in Nat /\ file.version \in Nat
      /\ cal \in Calendar(made.changes, file.version)
      /\ answer \in [Change -> {"none", "ok", "failed"}]
      /\ cal.pending["answer"] > 0
  BY TypesNow DEF Inv, PutAnswered
<1>2. PICK m : m = made.changes
  OBVIOUS
<1>3. PICK v \in Nat : v = file.version
  BY <1>1
<1>4. PICK c : c = Received(cal, "answer")
  OBVIOUS
<1>5. /\ c \in Calendar(m, v) /\ SameQueue(c, cal)
      /\ cal.pending = Only("answer") => c.pending = Nothing
  BY <1>1, <1>2, <1>3, <1>4, ReceivedKeeps, Callbacks
<1>6. ASSUME Without({"gone"})
      PROVE  /\ c.locked /\ c.pending = Nothing /\ Doable(c.queue, c.mem)
             /\ ActionsStored(c)
  <2>1. cal.locked /\ cal.pending = Only("answer") /\ Doable(cal.queue, cal.mem)
    BY <1>1, <1>6, WaitsForOne, Callbacks DEF Inv
  <2>2. cal.pending["answer"] = 1
    BY <2>1, Callbacks DEF Only
  <2>3. ActionsStored(cal)
    BY <1>6, <2>2 DEF Inv, Kept, ActionsStored
  <2>. QED BY <1>5, <2>1, <2>3 DEF SameQueue, ActionsStored
<1>7. UNCHANGED <<case, file, made, stored, unasked>>
  BY DEF PutAnswered
<1>8. CASE PutFails(c)
  BY <1>2, <1>3, <1>5, <1>6, <1>7, <1>8, PutFailsStep
<1>9. CASE cal' = Await(c, "etag") /\ UNCHANGED answer
  <2>1. PICK y : y = Await(c, "etag")
    OBVIOUS
  <2>2. /\ y \in Calendar(m, v) /\ SameQueue(y, c)
        /\ c.pending = Nothing => y.pending = Only("etag")
    BY <1>5, <2>1, AwaitKeeps, Callbacks
  <2>3. cal' = y /\ answer' = answer
    BY <1>9, <2>1
  <2>4. Types'
    BY <1>2, <1>3, <1>7, <2>2, <2>3 DEF Inv, Types
  <2>5. ASSUME Without({"gone"}) PROVE Orderly(cal)' /\ Kept(cal)' /\ AnswersKept'
    <3>1. /\ cal'.locked /\ cal'.pending = Only("etag") /\ Doable(cal'.queue, cal'.mem)
          /\ cal'.actions = c.actions
      BY <1>6, <2>2, <2>3, <2>5 DEF SameQueue
    <3>2. cal'.pending["get"] = 0
      BY <3>1, Callbacks DEF Only
    <3>3. Orderly(cal')
      BY <3>1, <3>2, Callbacks DEF Orderly
    <3>4. Orderly(cal)'
      BY <1>7, <3>3, OrderlyNext
    <3>5. Kept(cal)'
      BY <1>6, <1>7, <2>5, <3>1 DEF Kept, ActionsStored
    <3>6. AnswersKept'
      BY <1>7, <2>3, <2>5 DEF Inv, AnswersKept
    <3>. QED BY <3>4, <3>5, <3>6
  <2>6. Without({"gone"})' <=> Without({"gone"})
    BY <1>7 DEF Without
  <2>. QED BY <2>4, <2>5, <2>6 DEF Inv
<1>10. PICK etag : etag = IF Http THEN c.ours ELSE v
  OBVIOUS
<1>11. etag \in 0..v
  BY <1>5, <1>10 DEF Calendar
<1>12. PICK done : done = [c EXCEPT !.etag = etag]
  OBVIOUS
<1>13. done \in Calendar(m, v)
  BY <1>5, <1>11, <1>12 DEF Calendar
<1>14. SameQueue(done, c) /\ done.pending = c.pending
  BY <1>5, <1>12 DEF Calendar, SameQueue
<1>15. PICK x : x = Released(done)
  OBVIOUS
<1>16. /\ x \in Calendar(m, v) /\ ~x.locked /\ x.actions = <<>>
       /\ x.queue = done.queue /\ x.pending = done.pending /\ x.mem = done.mem
  BY <1>13, <1>15, ReleasedKeeps
<1>17. CASE /\ Throws(x) /\ answer' = Answers(done, FALSE)
            /\ cal' = Await(ProcessQueue(x), "etag")
  <2>1. ~Without({"gone"})
    <3>1. Doable(x.queue, x.mem) => Round(x).stop # "threw"
      BY <1>16, RoundKeeps DEF DeletionsOK
    <3>2. ~Doable(x.queue, x.mem)
      BY <1>17, <3>1 DEF Throws
    <3>. QED BY <1>6, <1>14, <1>16, <3>2 DEF SameQueue
  <2>2. PICK y : y = ProcessQueue(x)
    OBVIOUS
  <2>3. y \in Calendar(m, v)
    BY <1>16, <2>2, ProcessQueueKeeps
  <2>4. PICK z : z = Await(y, "etag")
    OBVIOUS
  <2>5. z \in Calendar(m, v)
    BY <2>3, <2>4, AwaitKeeps, Callbacks
  <2>6. cal' = z
    BY <1>17, <2>2, <2>4
  <2>7. answer' \in [Change -> {"none", "ok", "failed"}]
    BY <1>1, <1>17, AnswersKeep
  <2>8. Types'
    BY <1>2, <1>3, <1>7, <2>5, <2>6, <2>7 DEF Inv, Types
  <2>9. ~Without({"gone"})'
    BY <1>7, <2>1 DEF Without
  <2>. QED BY <2>8, <2>9 DEF Inv
<1>18. CASE Unlock(done, FALSE)
  <2>1. Without({"gone"}) =>
          /\ done.pending = Nothing /\ Doable(done.queue, done.mem)
          /\ ActionsStored(done)
    BY <1>6, <1>14 DEF SameQueue, ActionsStored
  <2>. QED BY <1>2, <1>3, <1>7, <1>13, <1>18, <2>1, UnlockStep
<1>19. \/ PutFails(c)
       \/ cal' = Await(c, "etag") /\ UNCHANGED answer
       \/ /\ Throws(x) /\ answer' = Answers(done, FALSE)
          /\ cal' = Await(ProcessQueue(x), "etag")
       \/ Unlock(done, FALSE)
  BY <1>3, <1>4, <1>10, <1>12, <1>15 DEF PutAnswered
<1>. QED BY <1>8, <1>9, <1>17, <1>18, <1>19

LEMMA EtagAnsweredKeeps == ASSUME Inv, EtagAnswered PROVE Inv'
<1>1. /\ file.version \in Nat
      /\ cal \in Calendar(made.changes, file.version) /\ cal.pending["etag"] > 0
  BY TypesNow DEF Inv, EtagAnswered
<1>2. PICK m : m = made.changes
  OBVIOUS
<1>3. PICK v \in Nat : v = file.version
  BY <1>1
<1>4. PICK c : c = Received(cal, "etag")
  OBVIOUS
<1>5. /\ c \in Calendar(m, v) /\ SameQueue(c, cal)
      /\ cal.pending = Only("etag") => c.pending = Nothing
  BY <1>1, <1>2, <1>3, <1>4, ReceivedKeeps, Callbacks
<1>6. PICK x : x = [c EXCEPT !.etag = 0]
  OBVIOUS
<1>7. 0 \in 0..v
  OBVIOUS
<1>8. x \in Calendar(m, v)
  BY <1>5, <1>6, <1>7 DEF Calendar
<1>9. SameQueue(x, c) /\ x.pending = c.pending
  BY <1>5, <1>6 DEF Calendar, SameQueue
<1>10. ASSUME Without({"gone"})
       PROVE  /\ c.locked /\ c.pending = Nothing /\ Doable(c.queue, c.mem)
              /\ ActionsStored(c)
  <2>1. cal.locked /\ cal.pending = Only("etag") /\ Doable(cal.queue, cal.mem)
    BY <1>1, <1>10, WaitsForOne, Callbacks DEF Inv
  <2>2. cal.pending["etag"] = 1
    BY <2>1, Callbacks DEF Only
  <2>3. ActionsStored(cal)
    BY <1>10, <2>2 DEF Inv, Kept, ActionsStored
  <2>. QED BY <1>5, <2>1, <2>3 DEF SameQueue, ActionsStored
<1>11. UNCHANGED <<case, file, made, stored, unasked>>
  BY DEF EtagAnswered
<1>12. CASE Unlock(x, FALSE)
  <2>1. Without({"gone"}) =>
          x.pending = Nothing /\ Doable(x.queue, x.mem) /\ ActionsStored(x)
    BY <1>9, <1>10 DEF SameQueue, ActionsStored
  <2>. QED BY <1>2, <1>3, <1>8, <1>11, <1>12, <2>1, UnlockStep
(* The answer cannot be read, and nothing else is to come. *)
<1>13. CASE Has("badAnswer") /\ cal' = c /\ answer' = answer
  <2>1. Types'
    BY <1>2, <1>3, <1>5, <1>11, <1>13 DEF Inv, Types
  <2>2. ASSUME Without({"gone"}) PROVE Orderly(cal)' /\ Kept(cal)' /\ AnswersKept'
    <3>1. c.pending["get"] = 0
      BY <1>10, <2>2, Callbacks DEF Nothing
    <3>2. Orderly(cal')
      BY <1>10, <1>13, <2>2, <3>1 DEF Orderly
    <3>3. Orderly(cal)'
      BY <1>11, <3>2, OrderlyNext
    <3>4. Kept(cal)'
      BY <1>10, <1>11, <1>13, <2>2 DEF Kept, ActionsStored
    <3>5. AnswersKept'
      BY <1>11, <1>13, <2>2 DEF Inv, AnswersKept
    <3>. QED BY <3>3, <3>4, <3>5
  <2>3. Without({"gone"})' <=> Without({"gone"})
    BY <1>11 DEF Without
  <2>. QED BY <2>1, <2>2, <2>3 DEF Inv
<1>14. Unlock(x, FALSE) \/ (Has("badAnswer") /\ cal' = c /\ answer' = answer)
  BY <1>4, <1>6 DEF EtagAnswered
<1>. QED BY <1>12, <1>13, <1>14
-----------------------------------------------------------------------------
(* The user and the others.                                                *)

(* A request waits, or is performed at once by a calendar that was idle.   *)
LEMMA EnqueuedStep ==
  ASSUME Inv, made' \in [changes : 0..MaxChanges, refreshes : Nat, others : Nat],
         made.changes <= made'.changes,
         NEW op \in Op(made'.changes), cal' = Enqueue(cal, op),
         UNCHANGED <<case, answer, file, stored, unasked>>,
         Without({"gone"}) => MayFollow(op, cal)
  PROVE  Inv'
<1>1. /\ made.changes \in Nat /\ file.version \in Nat
      /\ cal \in Calendar(made.changes, file.version)
  BY TypesNow DEF Inv
<1>2. PICK m \in Nat : m = made'.changes
  BY ICSAssumption DEF ICSAssumption
<1>3. PICK v \in Nat : v = file.version
  BY <1>1
<1>4. cal \in Calendar(m, v) /\ file \in File(m)
  BY <1>1, <1>2, <1>3, TypesGrow DEF Inv, Types
<1>5. /\ cal' \in Calendar(m, v)
      /\ Orderly(cal) /\ MayFollow(op, cal) =>
           /\ Orderly(cal')
           /\ cal.locked => /\ cal'.pending = cal.pending
                            /\ cal'.actions = cal.actions
           /\ ~cal.locked => Calm(cal')
  BY <1>2, <1>4, EnqueueKeeps
<1>6. Types'
  BY <1>2, <1>3, <1>4, <1>5 DEF Inv, Types
<1>7. CASE cal.locked
  <2>1. ASSUME Without({"gone"}) PROVE Orderly(cal)' /\ Kept(cal)' /\ AnswersKept'
    <3>1. /\ Orderly(cal') /\ cal'.pending = cal.pending
          /\ cal'.actions = cal.actions
      BY <1>5, <1>7, <2>1 DEF Inv
    <3>2. Orderly(cal)'
      BY <3>1, OrderlyNext
    <3>3. Kept(cal)' /\ AnswersKept'
      BY <2>1, <3>1 DEF Inv, Kept, AnswersKept
    <3>. QED BY <3>2, <3>3
  <2>2. Without({"gone"})' <=> Without({"gone"})
    BY DEF Without
  <2>. QED BY <1>6, <2>1, <2>2 DEF Inv
<1>8. CASE ~cal.locked
  <2>1. Without({"gone"}) =>
          Calm(cal') /\ \A n \in Change : answer'[n] = "ok" => n \in stored'
    BY <1>5, <1>8 DEF Inv, AnswersKept
  <2>. QED BY <1>6, <2>1, CalmStep
<1>. QED BY <1>7, <1>8

LEMMA RequestIsOp ==
  ASSUME Inv, NEW kind \in {"add", "modify", "delete"}, NEW i \in Item,
         NEW new \in Holding(made.changes + 1), kind # "delete" => new # Absent,
         Request(kind, i, new),
         Without({"gone"}) /\ kind = "delete" =>
           /\ cal.mem[i] # Absent /\ cal.pending["get"] = 0
           /\ \A k \in DOMAIN cal.queue :
                /\ cal.queue[k].kind # "refresh"
                /\ cal.queue[k].kind = "delete" => cal.queue[k].item # i
  PROVE  /\ made' \in [changes : 0..MaxChanges, refreshes : Nat, others : Nat]
         /\ made.changes <= made'.changes
         /\ UNCHANGED <<case, answer, file, stored, unasked>>
         /\ \E op \in Op(made'.changes) :
              /\ cal' = Enqueue(cal, op) /\ op.kind = kind
              /\ Without({"gone"}) => MayFollow(op, cal)
<1>1. /\ made \in [changes : 0..MaxChanges, refreshes : Nat, others : Nat]
      /\ made.changes \in Nat /\ cal \in Calendar(made.changes, file.version)
  BY TypesNow DEF Inv, Types
<1>2. MaxChanges \in Nat
  BY ICSAssumption DEF ICSAssumption
<1>3. made' = [made EXCEPT !.changes = made.changes + 1]
  BY DEF Request
<1>4. /\ made' \in [changes : 0..MaxChanges, refreshes : Nat, others : Nat]
      /\ made'.changes = made.changes + 1
  BY <1>1, <1>2, <1>3 DEF Request
<1>5. PICK op : op = [kind |-> kind, item |-> i, old |-> cal.mem[i],
                      new |-> new, n |-> made.changes + 1]
  OBVIOUS
<1>6. cal.mem[i] \in Holding(made.changes + 1)
  BY <1>1, HoldingGrows DEF Calendar
<1>7. made.changes + 1 \in Change
  BY <1>1, <1>2 DEF Request, Change
<1>8. op \in Op(made'.changes)
  BY <1>4, <1>5, <1>6, <1>7 DEF Op, ItemChanges
<1>9. op.kind = kind /\ (Without({"gone"}) => MayFollow(op, cal))
  BY <1>5 DEF MayFollow
<1>10. cal' = Enqueue(cal, op) /\ UNCHANGED <<case, answer, file, stored, unasked>>
  BY <1>5 DEF Request
<1>. QED BY <1>1, <1>4, <1>8, <1>9, <1>10

LEMMA RequestKeeps ==
  ASSUME Inv, NEW kind \in {"add", "modify", "delete"}, NEW i \in Item,
         NEW new \in Holding(made.changes + 1), kind # "delete" => new # Absent,
         Request(kind, i, new),
         Without({"gone"}) /\ kind = "delete" =>
           /\ cal.mem[i] # Absent /\ cal.pending["get"] = 0
           /\ \A k \in DOMAIN cal.queue :
                /\ cal.queue[k].kind # "refresh"
                /\ cal.queue[k].kind = "delete" => cal.queue[k].item # i
  PROVE  Inv'
BY RequestIsOp, EnqueuedStep

(* What the three methods of the user request.                             *)
LEMMA AdoptIsRequest ==
  ASSUME Inv, NEW i \in Item, AdoptItem(i)
  PROVE  \E new \in Holding(made.changes + 1) :
           new # Absent /\ Request("add", i, new)
<1>1. made.changes \in Nat
  BY TypesNow DEF Inv
<1>2. PICK new : new = [v |-> 1, g |-> 0]
  OBVIOUS
<1>3. new \in Holding(made.changes + 1) /\ new # Absent
  BY <1>1, <1>2 DEF Holding, Absent
<1>4. Request("add", i, new)
  BY <1>2 DEF AdoptItem
<1>. QED BY <1>3, <1>4

LEMMA ModifyIsRequest ==
  ASSUME Inv, NEW i \in Item, ModifyItem(i)
  PROVE  \E new \in Holding(made.changes + 1) :
           new # Absent /\ Request("modify", i, new)
<1>1. made.changes \in Nat /\ cal.mem[i] \in Holding(made.changes)
  BY TypesNow DEF Inv, Calendar
<1>2. PICK now \in [v : 1..2, g : 0..made.changes] : now = cal.mem[i]
  BY <1>1 DEF ModifyItem, Holding
<1>3. PICK new : new = [v |-> 3 - now.v, g |-> now.g + 1]
  OBVIOUS
<1>4. new \in [v : 1..2, g : 0..(made.changes + 1)]
  BY <1>1, <1>3
<1>5. new # Absent
  BY <1>4 DEF Absent
<1>6. new \in Holding(made.changes + 1)
  BY <1>4 DEF Holding
<1>7. Request("modify", i, new)
  BY <1>2, <1>3 DEF ModifyItem
<1>. QED BY <1>5, <1>6, <1>7

LEMMA DeleteIsRequest ==
  ASSUME Inv, NEW i \in Item, DeleteItem(i)
  PROVE  /\ Request("delete", i, Absent) /\ Absent \in Holding(made.changes + 1)
         /\ Without({"gone"}) =>
              /\ cal.mem[i] # Absent /\ cal.pending["get"] = 0
              /\ \A k \in DOMAIN cal.queue :
                   /\ cal.queue[k].kind # "refresh"
                   /\ cal.queue[k].kind = "delete" => cal.queue[k].item # i
<1>1. cal \in Calendar(made.changes, file.version)
  BY TypesNow DEF Inv
<1>2. cal.pending["get"] \in Nat
  BY <1>1, Callbacks DEF Calendar
<1>3. ASSUME Without({"gone"})
      PROVE  /\ cal.mem[i] # Absent /\ cal.pending["get"] = 0
             /\ \A k \in DOMAIN cal.queue :
                  /\ cal.queue[k].kind # "refresh"
                  /\ cal.queue[k].kind = "delete" => cal.queue[k].item # i
  <2>1. ~MayBeGone(i)
    BY <1>3 DEF DeleteItem, Without, Has
  <2>. QED BY <1>2, <2>1 DEF DeleteItem, MayBeGone, Waits
<1>4. Absent \in Holding(made.changes + 1)
  BY DEF Holding
<1>5. Request("delete", i, Absent)
  BY DEF DeleteItem
<1>. QED BY <1>3, <1>4, <1>5

LEMMA AdoptKeeps == ASSUME Inv, NEW i \in Item, AdoptItem(i) PROVE Inv'
BY AdoptIsRequest, RequestKeeps

LEMMA ModifyKeeps == ASSUME Inv, NEW i \in Item, ModifyItem(i) PROVE Inv'
BY ModifyIsRequest, RequestKeeps

LEMMA DeleteKeeps == ASSUME Inv, NEW i \in Item, DeleteItem(i) PROVE Inv'
BY DeleteIsRequest, RequestKeeps

LEMMA RefreshRequestedKeeps == ASSUME Inv, RefreshRequested PROVE Inv'
<1>1. /\ made \in [changes : 0..MaxChanges, refreshes : Nat, others : Nat]
      /\ made.changes \in Nat
  BY TypesNow DEF Inv, Types
<1>2. made' = [made EXCEPT !.refreshes = made.refreshes + 1]
  BY DEF RefreshRequested
<1>3. /\ made' \in [changes : 0..MaxChanges, refreshes : Nat, others : Nat]
      /\ made'.changes = made.changes
  BY <1>1, <1>2
<1>4. PICK op : op = [kind |-> "refresh", forced |-> FALSE]
  OBVIOUS
<1>5. op \in Op(made'.changes) /\ MayFollow(op, cal)
  BY <1>4, RefreshIsOp
<1>6. cal' = Enqueue(cal, op) /\ UNCHANGED <<case, answer, file, stored, unasked>>
  BY <1>4 DEF RefreshRequested, Refresh
<1>. QED BY <1>1, <1>3, <1>5, <1>6, EnqueuedStep

(* What happens to the file, or to readOnly, leaves the queue alone.       *)
LEMMA SameCalendarStep ==
  ASSUME Inv, Types', UNCHANGED <<case, answer, stored>>,
         SameQueue(cal', cal), cal'.pending = cal.pending
  PROVE  Inv'
<1>1. Without({"gone"})' <=> Without({"gone"})
  BY DEF Without
<1>2. ASSUME Without({"gone"}) PROVE Orderly(cal)' /\ Kept(cal)' /\ AnswersKept'
  <2>1. /\ cal'.locked = cal.locked /\ cal'.queue = cal.queue
        /\ cal'.mem = cal.mem /\ cal'.actions = cal.actions
    BY DEF SameQueue
  <2>2. Orderly(cal)'
    BY <1>2, <2>1 DEF Inv, Orderly, Doable, NoDeletion, Has
  <2>3. Kept(cal)' /\ AnswersKept'
    BY <1>2, <2>1 DEF Inv, Kept, AnswersKept
  <2>. QED BY <2>2, <2>3
<1>. QED BY <1>1, <1>2 DEF Inv

LEMMA EnableWritingKeeps == ASSUME Inv, EnableWriting PROVE Inv'
<1>1. PICK c : c = [cal EXCEPT !.readOnly = FALSE]
  OBVIOUS
<1>2. cal' = c /\ UNCHANGED <<case, answer, file, made, stored, unasked>>
  BY <1>1 DEF EnableWriting
<1>3. cal \in Calendar(made.changes, file.version)
  BY TypesNow DEF Inv
<1>4. c \in Calendar(made.changes, file.version)
  BY <1>1, <1>3 DEF Calendar
<1>5. SameQueue(c, cal) /\ c.pending = cal.pending
  BY <1>1, <1>3 DEF Calendar, SameQueue
<1>6. Types'
  BY <1>2, <1>4 DEF Inv, Types
<1>. QED BY <1>2, <1>5, <1>6, SameCalendarStep

LEMMA OthersChangeKeeps == ASSUME Inv, OthersChange PROVE Inv'
<1>1. /\ made.changes \in Nat /\ file.version \in Nat
      /\ cal \in Calendar(made.changes, file.version)
      /\ file \in File(made.changes)
      /\ made \in [changes : 0..MaxChanges, refreshes : Nat, others : Nat]
  BY TypesNow DEF Inv, Types
<1>2. made' = [made EXCEPT !.others = made.others + 1]
  BY DEF OthersChange
<1>3. /\ made' \in [changes : 0..MaxChanges, refreshes : Nat, others : Nat]
      /\ made'.changes = made.changes
  BY <1>1, <1>2
<1>4. file' \in File(made.changes) /\ file'.version = file.version + 1
  <2>1. ASSUME NEW i \in Item,
               NEW new \in {Absent, [file.items[i] EXCEPT !.v = IF @ = 1 THEN 2 ELSE 1]},
               file' = [items |-> [file.items EXCEPT ![i] = new],
                        version |-> file.version + 1, form |-> "ok"]
        PROVE  file' \in File(made.changes) /\ file'.version = file.version + 1
    <3>1. file.items \in [Item -> Holding(made.changes)]
      BY <1>1 DEF File
    <3>2. PICK old \in Holding(made.changes) : old = file.items[i]
      BY <3>1
    <3>3. old.v \in Nat /\ old.g \in 0..made.changes /\ DOMAIN old = {"v", "g"}
      BY <1>1, <3>2 DEF Holding, Absent
    <3>4. old = [v |-> old.v, g |-> old.g]
      BY <1>1, <3>2 DEF Holding, Absent
    <3>5. [old EXCEPT !.v = IF @ = 1 THEN 2 ELSE 1]
            = [v |-> IF old.v = 1 THEN 2 ELSE 1, g |-> old.g]
      BY <3>4
    <3>6. new \in Holding(made.changes)
      BY <2>1, <3>2, <3>3, <3>5 DEF Holding
    <3>7. PICK items \in [Item -> Holding(made.changes)] :
            items = [file.items EXCEPT ![i] = new]
      BY <3>1, <3>6
    <3>. QED BY <1>1, <2>1, <3>7 DEF File
  <2>2. ASSUME NEW form \in {"notUtf8", "notIcs"} \cap case.env,
               file' = [file EXCEPT !.version = file.version + 1, !.form = form]
        PROVE  file' \in File(made.changes) /\ file'.version = file.version + 1
    <3>1. PICK next \in Nat : next = file.version + 1
      BY <1>1
    <3>2. file' = [file EXCEPT !.version = next, !.form = form]
      BY <2>2, <3>1
    <3>3. form \in {"ok", "notUtf8", "notIcs"}
      OBVIOUS
    <3>4. file' \in File(made.changes) /\ file'.version = next
      BY <1>1, <3>2, <3>3 DEF File
    <3>. QED BY <3>1, <3>4
  <2>. QED BY <2>1, <2>2 DEF OthersChange
<1>5. UNCHANGED <<case, cal, answer, stored, unasked>>
  BY DEF OthersChange
<1>6. cal \in Calendar(made.changes, file'.version)
  BY <1>1, <1>4, TypesGrow
<1>7. Types'
  BY <1>3, <1>4, <1>5, <1>6 DEF Inv, Types
<1>8. SameQueue(cal', cal) /\ cal'.pending = cal.pending
  BY <1>5 DEF SameQueue
<1>. QED BY <1>5, <1>7, <1>8, SameCalendarStep

-----------------------------------------------------------------------------
(* The invariant, and what it says.                                        *)

LEMMA InitInv == ASSUME Init PROVE Inv
<1>1. PICK c : c = [queue |-> <<>>, actions |-> <<>>, locked |-> FALSE,
                    pending |-> Nothing, mem |-> NoItems,
                    etag |-> 0, modified |-> 0, readOnly |-> FALSE, known |-> 0,
                    body |-> NoItems, match |-> 0, ours |-> 0, loaded |-> FALSE]
  OBVIOUS
<1>2. NoItems \in [Item -> Holding(0)] /\ Nothing \in [Callback -> Nat]
  BY DEF NoItems, Holding, Nothing
<1>3. <<>> \in Seq(Op(0)) /\ <<>> \in Seq(Action) /\ 0 \in 0..1
  OBVIOUS
<1>4. c \in Calendar(0, 1)
  BY <1>1, <1>2, <1>3 DEF Calendar
<1>5. Orderly(c) /\ ~c.locked
  BY <1>1 DEF Orderly
<1>6. PICK op : op = [kind |-> "refresh", forced |-> FALSE]
  OBVIOUS
<1>7. op \in Op(0) /\ MayFollow(op, c)
  BY <1>6, RefreshIsOp
<1>8. cal = Enqueue(c, op)
  BY <1>1, <1>6 DEF Init, Refresh, Nothing
<1>9. cal \in Calendar(0, 1) /\ Calm(cal)
  BY <1>4, <1>5, <1>7, <1>8, EnqueueKeeps
<1>10. /\ file \in File(0) /\ file.version = 1
  <2>1. PICK items \in [Item -> {Absent, [v |-> 1, g |-> 0]}] :
          file = [items |-> items, version |-> 1, form |-> "ok"]
    BY DEF Init
  <2>2. [v |-> 1, g |-> 0] \in Holding(0) /\ Absent \in Holding(0)
    BY DEF Holding
  <2>3. items \in [Item -> Holding(0)]
    BY <2>2
  <2>. QED BY <2>1, <2>3 DEF File
<1>11. /\ made \in [changes : 0..MaxChanges, refreshes : Nat, others : Nat]
       /\ made.changes = 0
  BY ICSAssumption DEF Init, ICSAssumption
<1>12. /\ answer \in [Change -> {"none", "ok", "failed"}]
       /\ \A n \in Change : answer[n] # "ok"
  BY DEF Init
<1>13. Types
  BY <1>9, <1>10, <1>11, <1>12 DEF Init, Types
<1>14. Orderly(cal) /\ Kept(cal) /\ AnswersKept
  BY <1>9, <1>12 DEF Calm, Kept, AnswersKept
<1>. QED BY <1>13, <1>14 DEF Inv

LEMMA NextInv == ASSUME Inv, [Next]_vars PROVE Inv'
<1>1. CASE Network
  BY <1>1, GetAnsweredKeeps, BackupDoneKeeps, PutStoredKeeps, PutRefusedKeeps,
     PutAnsweredKeeps, EtagAnsweredKeeps DEF Network
<1>2. CASE \E i \in Item : AdoptItem(i) \/ ModifyItem(i) \/ DeleteItem(i)
  BY <1>2, AdoptKeeps, ModifyKeeps, DeleteKeeps
<1>3. CASE RefreshRequested \/ EnableWriting \/ OthersChange
  BY <1>3, RefreshRequestedKeeps, EnableWritingKeeps, OthersChangeKeeps
<1>4. CASE UNCHANGED vars
  <2>1. Types'
    BY <1>4 DEF Inv, Types, vars
  <2>2. SameQueue(cal', cal) /\ cal'.pending = cal.pending
    BY <1>4 DEF SameQueue, vars
  <2>. QED BY <1>4, <2>1, <2>2, SameCalendarStep DEF vars
<1>. QED BY <1>1, <1>2, <1>3, <1>4 DEF Next

LEMMA InvAlways == Spec => []Inv
<1>1. Init => Inv
  BY InitInv
<1>2. Inv /\ [Next]_vars => Inv'
  BY NextInv
<1>. QED BY <1>1, <1>2, PTL DEF Spec

LEMMA InvTypes == ASSUME Inv PROVE TypeOK
<1>1. /\ case \in Cases /\ made.changes \in 0..MaxChanges
      /\ file \in File(made.changes)
      /\ cal \in Calendar(made.changes, file.version)
      /\ answer \in [Change -> {"none", "ok", "failed"}]
      /\ stored \subseteq Change /\ unasked \subseteq Item
  BY DEF Inv, Types
<1>2. MaxChanges \in Nat
  BY ICSAssumption DEF ICSAssumption
<1>3. Holding(made.changes) \subseteq Content
  BY <1>1, <1>2 DEF Holding, Content, Absent
<1>4. /\ cal.mem \in [Item -> Content] /\ cal.body \in [Item -> Content]
      /\ file.items \in [Item -> Content]
  BY <1>1, <1>3 DEF Calendar, File
<1>5. /\ {cal.etag, cal.modified, cal.match} \subseteq 0..file.version
      /\ cal.pending \in [Callback -> Nat]
  BY <1>1 DEF Calendar
<1>6. ASSUME Without({"gone"})
      PROVE  /\ \A b \in Callback : cal.pending[b] <= 1
             /\ \A b, d \in Callback : cal.pending[b] + cal.pending[d] = 2 => b = d
             /\ (\E b \in Callback : cal.pending[b] > 0) => cal.locked
             /\ cal.locked => Has("badAnswer") \/ \E b \in Callback : cal.pending[b] > 0
             /\ ~cal.locked => cal.queue = <<>> /\ cal.actions = <<>>
  <2>1. Orderly(cal)
    BY <1>6 DEF Inv
  <2>2. ASSUME cal.locked, NEW e \in Callback, cal.pending = Only(e)
        PROVE  /\ \A b \in Callback : cal.pending[b] <= 1
               /\ \A b, d \in Callback : cal.pending[b] + cal.pending[d] = 2 => b = d
               /\ cal.pending[e] > 0
    <3>1. \A b \in Callback : cal.pending[b] = IF b = e THEN 1 ELSE 0
      BY <2>2 DEF Only
    <3>. QED BY <3>1
  <2>3. CASE cal.locked /\ cal.pending = Nothing /\ Has("badAnswer")
    <3>1. \A b \in Callback : cal.pending[b] = 0
      BY <2>3 DEF Nothing
    <3>. QED BY <2>3, <3>1
  <2>4. CASE ~cal.locked
    <3>1. cal.pending = Nothing /\ cal.queue = <<>> /\ cal.actions = <<>>
      BY <2>1, <2>4 DEF Orderly
    <3>2. \A b \in Callback : cal.pending[b] = 0
      BY <3>1 DEF Nothing
    <3>. QED BY <2>4, <3>1, <3>2
  <2>. QED BY <2>1, <2>2, <2>3, <2>4 DEF Orderly
<1>. QED BY <1>1, <1>4, <1>5, <1>6 DEF TypeOK

(* The variables have their types, and the calendar waits for one callback *)
(* of the transport at a time, locked (lock, unlock). It is locked without *)
(* one only when the answer to the PROPFIND of onAfterPut was not UTF-8,   *)
(* whose listener then throws before it calls aRespFunc. An                *)
(* unlocked calendar has nothing left in its queue: processQueue performs  *)
(* all of it, or stops at a refresh and locks the calendar for it.         *)
THEOREM TypeCorrect == Spec => []TypeOK
<1>1. Inv => TypeOK
  BY InvTypes
<1>. QED BY <1>1, InvAlways, PTL

(* unlock tells the listener of a change that it succeeded only after an   *)
(* upload that held the change was stored.                                 *)
THEOREM OkIsStoredAlways == Spec => []OkIsStored
<1>1. Inv => OkIsStored
  BY DEF Inv, AnswersKept, OkIsStored
<1>. QED BY <1>1, InvAlways, PTL

-----------------------------------------------------------------------------
(* The items: what the memory calendar, the file and an upload's body have *)
(* to do with one another. Unlike the lock this depends on what fails.     *)

Quiet == Without({"race", "notUtf8", "notIcs", "gone"})
UploadMayFail == ~Without({"putFails", "openFails"})
StaleIsReloaded ==
  Quiet /\ (UploadMayFail => Without({"getFails", "neverLoaded"}))
Alone == Without({"others"})
NothingUnasked ==
  /\ Quiet /\ Without({"neverLoaded"})
  /\ Alone \/ Without({"noEtag", "unversioned"})
  /\ UploadMayFail => Without({"pipelined", "getFails"})

OnlyRefreshes(q) == \A k \in DOMAIN q : q[k].kind = "refresh"
Touched(c, i) == \E k \in DOMAIN c.actions : c.actions[k].item = i

(* A forced refresh is queued, or under way.                               *)
Forced(q) == \E k \in DOMAIN q : q[k].kind = "refresh" /\ q[k].forced
Reloads(c) == Forced(c.queue) \/ (c.pending["get"] = 1 /\ c.known = 0)

(* An upload is of what the calendar shows. What it has stored is still in
   the file, unless the file has another version than the upload's.        *)
UploadFits(c, f) ==
  /\ c.pending["put"] = 1 =>
       /\ c.body = c.mem /\ c.match = c.etag
       /\ Http \/ c.etag = 0 \/ c.etag = f.version
  /\ c.pending["answer"] = 1 \/ c.pending["etag"] = 1 =>
       /\ c.body = c.mem /\ c.etag < f.version /\ c.ours > 0
       /\ f.version = c.ours => f.items = c.body
       /\ ~Http \/ Alone => f.version = c.ours
  /\ c.pending["etag"] = 1 => Http /\ Has("noEtag")

(* A calendar has the version of the file: it knows it, or there is but what
   it has read and written itself.                                         *)
Current(c, f) == c.etag = f.version \/ (Alone /\ c.etag = 0 /\ c.loaded)

(* With the file's version a calendar shows the file's items, unless it is
   about to upload its own, or an upload has failed and the file will be
   loaded whether or not it has changed.                                   *)
Shows(c, f) ==
  Current(c, f) =>
    \/ c.mem = f.items \/ c.pending["backup"] = 1 \/ c.pending["put"] = 1
    \/ UploadMayFail /\ Reloads(c)

(* Once the first download is over the calendar knows a version of the file,
   or is the only one to change it.                                        *)
Knows(c) == c.loaded /\ (c.etag # 0 \/ Alone)
KnowsFile(c) ==
  Knows(c) \/ (c.pending["get"] = 1 /\ c.known = 0 /\ ~c.loaded)

(* What is about to be uploaded differs from the file by the changes that
   will be answered for it.                                                *)
AskedFor(c, f) ==
  (c.pending["backup"] = 1 \/ c.pending["put"] = 1) /\ Current(c, f) =>
    \A i \in Item : c.mem[i] # f.items[i] => Touched(c, i)

ShowInv ==
  /\ file.version > 0
  /\ Without({"notUtf8", "notIcs"}) => file.form = "ok"
  /\ Without({"gone", "pipelined"}) /\ cal.locked => OnlyRefreshes(cal.queue)
  /\ Quiet => UploadFits(cal, file)
  /\ StaleIsReloaded => Shows(cal, file)
  /\ NothingUnasked => KnowsFile(cal) /\ AskedFor(cal, file) /\ unasked = {}

(* What a change in the memory calendar leaves alone, and that it is among
   the changes to be answered.                                             *)
Noted(d, c, op) ==
  /\ d.etag = c.etag /\ d.modified = c.modified /\ d.loaded = c.loaded
  /\ \A i \in Item : Touched(c, i) => Touched(d, i)
  /\ Touched(d, op.item)

LEMMA MemoryNotes ==
  ASSUME NEW m, NEW v, NEW c \in Calendar(m, v), NEW op \in ItemChanges(m)
  PROVE  Noted(Accepted(c, op), c, op) /\ Noted(Rejected(c, op), c, op)
<1>. SUFFICES ASSUME NEW ok \in BOOLEAN, NEW d \in {Accepted(c, op), Rejected(c, op)}
              PROVE  Noted(d, c, op)
  OBVIOUS
<1>1. c.actions \in Seq(Action)
  BY DEF Calendar
<1>2. PICK n \in Nat : n = Len(c.actions)
  BY <1>1
<1>3. PICK action : /\ d.actions = Append(c.actions, action) /\ action.item = op.item
                    /\ d.etag = c.etag /\ d.modified = c.modified /\ d.loaded = c.loaded
                    /\ action \in Action
  <2>1. CASE d = Accepted(c, op)
    <3>1. PICK action : action = [n |-> op.n, ok |-> TRUE, item |-> op.item]
      OBVIOUS
    <3>2. action \in Action
      BY <3>1 DEF Action, ItemChanges
    <3>3. /\ d.actions = Append(c.actions, action)
          /\ d.etag = c.etag /\ d.modified = c.modified /\ d.loaded = c.loaded
      BY <2>1, <3>1 DEF Accepted, Calendar
    <3>. QED BY <3>1, <3>2, <3>3
  <2>2. CASE d = Rejected(c, op)
    <3>1. PICK action : action = [n |-> op.n, ok |-> FALSE, item |-> op.item]
      OBVIOUS
    <3>2. action \in Action
      BY <3>1 DEF Action, ItemChanges
    <3>3. /\ d.actions = Append(c.actions, action)
          /\ d.etag = c.etag /\ d.modified = c.modified /\ d.loaded = c.loaded
      BY <2>2, <3>1 DEF Rejected, Calendar
    <3>. QED BY <3>1, <3>2, <3>3
  <2>. QED BY <2>1, <2>2
<1>4. PICK actions : actions = Append(c.actions, action)
  OBVIOUS
<1>5. /\ DOMAIN actions = 1..(n + 1) /\ DOMAIN c.actions = 1..n
      /\ actions[n + 1] = action /\ \A k \in 1..n : actions[k] = c.actions[k]
  BY <1>1, <1>2, <1>3, <1>4
<1>6. /\ \A k \in DOMAIN c.actions : k \in DOMAIN actions /\ actions[k] = c.actions[k]
      /\ n + 1 \in DOMAIN actions
  BY <1>5
<1>. QED BY <1>3, <1>4, <1>5, <1>6 DEF Noted, Touched

(* The four things that a step of a round may do. *)
LEMMA PerformCases ==
  ASSUME NEW m, NEW v, NEW b \in RoundState(m, v), NEW op \in Op(m),
         NEW e, e = Perform(b, op)
  PROVE  \/ /\ b.stop # "no" /\ e.c = b.c /\ e.rest = Append(b.rest, op)
            /\ e.write = b.write /\ e.stop = b.stop /\ e.refresh = b.refresh
         \/ /\ b.stop = "no" /\ op.kind = "refresh" /\ e.c = b.c /\ e.rest = b.rest
            /\ e.write = b.write /\ e.stop = "refresh" /\ e.refresh = op
         \/ /\ b.stop = "no" /\ op.kind # "refresh" /\ e.rest = b.rest
            /\ e.write /\ e.stop = "no"
            /\ op \in ItemChanges(m) /\ e.c \in {Accepted(b.c, op), Rejected(b.c, op)}
         \/ e.stop = "threw"
<1>1. CASE b.stop # "no"
  <2>1. PICK rest : rest = Append(b.rest, op)
    OBVIOUS
  <2>2. e = [b EXCEPT !.rest = rest]
    BY <1>1, <2>1 DEF Perform, RoundState
  <2>. QED BY <1>1, <2>1, <2>2 DEF RoundState
<1>2. CASE b.stop = "no" /\ op.kind = "refresh"
  <2>1. e = [b EXCEPT !.stop = "refresh", !.refresh = op]
    BY <1>2 DEF Perform
  <2>. QED BY <1>2, <2>1 DEF RoundState
<1>3. CASE b.stop = "no" /\ op.kind # "refresh"
  <2>1. op \in ItemChanges(m)
    BY <1>3 DEF Op, Refreshes
  <2>2. ASSUME NEW d \in {Accepted(b.c, op), Rejected(b.c, op)},
               e = [b EXCEPT !.c = d, !.write = TRUE]
        PROVE  /\ e.rest = b.rest /\ e.write /\ e.stop = "no"
               /\ e.c \in {Accepted(b.c, op), Rejected(b.c, op)}
    BY <1>3, <2>2 DEF RoundState
  <2>3. CASE op.kind = "add"
    <3>1. PICK d : d = Accepted(b.c, op)
      OBVIOUS
    <3>2. e = [b EXCEPT !.c = d, !.write = TRUE]
      BY <1>3, <2>3, <3>1 DEF Perform, RoundState
    <3>. QED BY <1>3, <2>1, <2>2, <3>1, <3>2
  <2>4. CASE op.kind = "modify"
    <3>1. PICK d : d = ModifyMemory(b.c, op)
      OBVIOUS
    <3>2. e = [b EXCEPT !.c = d, !.write = TRUE]
      BY <1>3, <2>4, <3>1 DEF Perform, RoundState
    <3>3. d \in {Accepted(b.c, op), Rejected(b.c, op)}
      BY <3>1 DEF ModifyMemory
    <3>. QED BY <1>3, <2>1, <2>2, <3>2, <3>3
  <2>5. CASE op.kind = "delete" /\ b.c.mem[op.item] # Absent
    <3>1. PICK d : d = DeleteMemory(b.c, op)
      OBVIOUS
    <3>2. e = [b EXCEPT !.c = d, !.write = TRUE]
      BY <1>3, <2>5, <3>1 DEF Perform, RoundState
    <3>3. d \in {Accepted(b.c, op), Rejected(b.c, op)}
      BY <3>1 DEF DeleteMemory
    <3>. QED BY <1>3, <2>1, <2>2, <3>2, <3>3
  <2>6. CASE op.kind = "delete" /\ b.c.mem[op.item] = Absent
    <3>1. e = [b EXCEPT !.stop = "threw"]
      BY <1>3, <2>6 DEF Perform
    <3>. QED BY <3>1 DEF RoundState
  <2>. QED BY <2>1, <2>3, <2>4, <2>5, <2>6 DEF ItemChanges
<1>. QED BY <1>1, <1>2, <1>3 DEF RoundState

(* After k steps of the round of c: what was changed is to be written, the
   changes before a refresh only, and a forced refresh is not forgotten.   *)
RoundShows(b, c, k) ==
  /\ b.c.etag = c.etag /\ b.c.modified = c.modified /\ b.c.loaded = c.loaded
  /\ ~b.write => b.c.mem = c.mem
  /\ \A i \in Item : b.c.mem[i] # c.mem[i] => Touched(b.c, i)
  /\ b.stop = "no" => /\ \A j \in 1..k : c.queue[j].kind # "refresh"
                      /\ b.write \/ k = 0
  /\ b.stop = "refresh" =>
       /\ \E j \in 1..k : c.queue[j].kind = "refresh"
       /\ \A j \in 1..k : c.queue[j].kind = "refresh" /\ c.queue[j].forced =>
                            b.refresh.forced \/ Forced(b.rest)
  /\ (\A j \in 1..k : c.queue[j].kind = "refresh") =>
       ~b.write /\ OnlyRefreshes(b.rest)

LEMMA AppendRefreshes ==
  ASSUME NEW S, NEW q \in Seq(S), NEW op \in S
  PROVE  /\ OnlyRefreshes(q) /\ op.kind = "refresh" => OnlyRefreshes(Append(q, op))
         /\ Forced(q) \/ (op.kind = "refresh" /\ op.forced) => Forced(Append(q, op))
         /\ OnlyRefreshes(<<>>) /\ ~Forced(<<>>)
<1>1. PICK n \in Nat : n = Len(q)
  OBVIOUS
<1>2. PICK r : r = Append(q, op)
  OBVIOUS
<1>3. /\ DOMAIN r = 1..(n + 1) /\ DOMAIN q = 1..n
      /\ r[n + 1] = op /\ \A k \in 1..n : r[k] = q[k]
  BY <1>1, <1>2
<1>4. /\ \A k \in DOMAIN q : k \in DOMAIN r /\ r[k] = q[k]
      /\ \A k \in DOMAIN r : r[k] = op \/ (k \in DOMAIN q /\ r[k] = q[k])
      /\ n + 1 \in DOMAIN r
  BY <1>3
<1>5. OnlyRefreshes(<<>>) /\ ~Forced(<<>>)
  BY DEF OnlyRefreshes, Forced
<1>. QED BY <1>2, <1>3, <1>4, <1>5 DEF OnlyRefreshes, Forced

LEMMA PerformShows ==
  ASSUME NEW m, NEW v, NEW c \in Calendar(m, v), NEW b \in RoundState(m, v),
         NEW k \in Nat, k + 1 \in 1..Len(c.queue), RoundOK(b, c, k),
         b.stop # "threw" => RoundShows(b, c, k),
         NEW e, e = Perform(b, c.queue[k + 1]), e.stop # "threw"
  PROVE  RoundShows(e, c, k + 1)
<1>1. PICK op : op = c.queue[k + 1]
  OBVIOUS
<1>2. op \in Op(m)
  BY <1>1 DEF Calendar
<1>3. b.c \in Calendar(m, v) /\ b.rest \in Seq(Op(m))
  BY DEF RoundState
<1>4. /\ \A j \in 1..(k + 1) : j \in 1..k \/ c.queue[j] = op
      /\ 1..k \subseteq 1..(k + 1) /\ k + 1 \in 1..(k + 1)
  BY <1>1
<1>5. CASE /\ b.stop # "no" /\ e.c = b.c /\ e.rest = Append(b.rest, op)
           /\ e.write = b.write /\ e.stop = b.stop /\ e.refresh = b.refresh
  <2>1. RoundShows(b, c, k)
    BY <1>5
  <2>2. /\ OnlyRefreshes(b.rest) /\ op.kind = "refresh" => OnlyRefreshes(e.rest)
        /\ Forced(b.rest) \/ (op.kind = "refresh" /\ op.forced) => Forced(e.rest)
    BY <1>2, <1>3, <1>5, AppendRefreshes
  <2>3. b.stop = "refresh" =>
          /\ \E j \in 1..(k + 1) : c.queue[j].kind = "refresh"
          /\ \A j \in 1..(k + 1) : c.queue[j].kind = "refresh" /\ c.queue[j].forced =>
                               e.refresh.forced \/ Forced(e.rest)
    BY <1>4, <1>5, <2>1, <2>2 DEF RoundShows
  <2>4. (\A j \in 1..(k + 1) : c.queue[j].kind = "refresh") =>
          ~e.write /\ OnlyRefreshes(e.rest)
    BY <1>1, <1>4, <1>5, <2>1, <2>2 DEF RoundShows
  <2>. QED BY <1>5, <2>1, <2>3, <2>4 DEF RoundShows
<1>6. CASE /\ b.stop = "no" /\ op.kind = "refresh" /\ e.c = b.c /\ e.rest = b.rest
           /\ e.write = b.write /\ e.stop = "refresh" /\ e.refresh = op
  <2>1. RoundShows(b, c, k) /\ b.rest = <<>>
    BY <1>6 DEF RoundOK
  <2>2. \A j \in 1..k : c.queue[j].kind # "refresh"
    BY <1>6, <2>1 DEF RoundShows
  <2>3. /\ \E j \in 1..(k + 1) : c.queue[j].kind = "refresh"
        /\ \A j \in 1..(k + 1) : c.queue[j].kind = "refresh" /\ c.queue[j].forced =>
                             e.refresh.forced
    BY <1>1, <1>4, <1>6, <2>2
  <2>4. (\A j \in 1..(k + 1) : c.queue[j].kind = "refresh") =>
          ~e.write /\ OnlyRefreshes(e.rest)
    BY <1>4, <1>6, <2>1 DEF RoundShows
  <2>. QED BY <1>6, <2>1, <2>3, <2>4 DEF RoundShows
<1>7. CASE /\ b.stop = "no" /\ op.kind # "refresh" /\ e.rest = b.rest
           /\ e.write /\ e.stop = "no"
           /\ op \in ItemChanges(m) /\ e.c \in {Accepted(b.c, op), Rejected(b.c, op)}
  <2>1. RoundShows(b, c, k)
    BY <1>7
  <2>2. Changed(e.c, b.c, op) /\ Noted(e.c, b.c, op)
    BY <1>3, <1>7, AcceptedKeeps, RejectedKeeps, MemoryNotes
  <2>3. ASSUME NEW i \in Item, e.c.mem[i] # c.mem[i] PROVE Touched(e.c, i)
    <3>1. CASE i = op.item
      BY <2>2, <3>1 DEF Noted
    <3>2. CASE i # op.item
      <4>1. b.c.mem \in [Item -> Holding(m)]
        BY <1>3 DEF Calendar
      <4>2. e.c.mem[i] = b.c.mem[i]
        BY <2>2, <3>2, <4>1 DEF Changed
      <4>. QED BY <2>1, <2>2, <2>3, <4>2 DEF RoundShows, Noted
    <3>. QED BY <3>1, <3>2
  <2>4. \A j \in 1..(k + 1) : c.queue[j].kind # "refresh"
    BY <1>4, <1>7, <2>1 DEF RoundShows
  <2>5. ~\A j \in 1..(k + 1) : c.queue[j].kind = "refresh"
    BY <1>4, <2>4
  <2>. QED BY <1>7, <2>1, <2>2, <2>3, <2>4, <2>5 DEF RoundShows, Noted
<1>. QED BY <1>1, <1>2, <1>5, <1>6, <1>7, PerformCases

LEMMA RoundKeepsShowing ==
  ASSUME NEW m, NEW v, NEW c \in Calendar(m, v), Round(c).stop # "threw"
  PROVE  RoundShows(Round(c), c, Len(c.queue))
<1>1. PICK N \in Nat : N = Len(c.queue)
  BY DEF Calendar
<1>2. PICK f : Steps(f, c, N) /\ Round(c) = f[N]
  BY <1>1, RoundIsLastStep
<1>. DEFINE OK(k) ==
       /\ f[k] \in RoundState(m, v) /\ RoundOK(f[k], c, k)
       /\ Doable(c.queue, c.mem) => DeletionsOK(f[k], c, k)
       /\ f[k].stop # "threw" => RoundShows(f[k], c, k)
<1>3. OK(0)
  <2>1. f[0] = Begun(c)
    BY <1>2 DEF Steps
  <2>2. PICK b : b = Begun(c)
    OBVIOUS
  <2>3. b.c = c /\ b.rest = <<>> /\ ~b.write /\ b.stop = "no"
    BY <2>2 DEF Begun
  <2>4. RoundShows(b, c, 0)
    BY <2>3 DEF RoundShows, OnlyRefreshes
  <2>. QED BY <2>1, <2>2, <2>4, BegunIsOK
<1>4. ASSUME NEW k \in 0..N, k + 1 \in 0..N, OK(k) PROVE OK(k + 1)
  <2>1. k + 1 \in 1..Len(c.queue) /\ k \in Nat /\ k + 1 # 0 /\ (k + 1) - 1 = k
    BY <1>1, <1>4
  <2>2. f[k + 1] = Perform(f[k], c.queue[k + 1])
    BY <1>2, <1>4, <2>1 DEF Steps
  <2>. QED BY <1>4, <2>1, <2>2, PerformKeeps, PerformShows
<1>. HIDE DEF OK
<1>5. PICK S : S = {k \in 0..N : OK(k)}
  OBVIOUS
<1>6. 0 \in S /\ \A k \in 0..N : k \in S /\ k + 1 \in 0..N => k + 1 \in S
  BY <1>3, <1>4, <1>5
<1>7. OK(N)
  BY <1>5, <1>6, UpTo
<1>. QED BY <1>1, <1>2, <1>7 DEF OK

(* What waiting, answering and queueing leave alone.                       *)
SameFile(d, c) ==
  /\ d.etag = c.etag /\ d.modified = c.modified /\ d.known = c.known
  /\ d.loaded = c.loaded
  /\ d.body = c.body /\ d.match = c.match /\ d.ours = c.ours

LEMMA FileLeftAlone ==
  ASSUME NEW m, NEW v, NEW c \in Calendar(m, v), NEW b \in Callback, NEW op
  PROVE  /\ SameFile(Await(c, b), c) /\ SameFile(Received(c, b), c)
         /\ SameFile(Released(c), c) /\ SameFile(ReadOnly(c), c)
         /\ SameFile(Queued(c, op), c) /\ SameFile(Lock(c), c)
<1>1. SameFile(Await(c, b), c)
  <2>1. PICK pending : pending = [c.pending EXCEPT ![b] = @ + 1]
    OBVIOUS
  <2>2. Await(c, b) = [c EXCEPT !.pending = pending]
    BY <2>1 DEF Await, Calendar
  <2>. QED BY <2>2 DEF SameFile, Calendar
<1>2. SameFile(Received(c, b), c)
  <2>1. PICK pending : pending = [c.pending EXCEPT ![b] = @ - 1]
    OBVIOUS
  <2>2. Received(c, b) = [c EXCEPT !.pending = pending]
    BY <2>1 DEF Received, Calendar
  <2>. QED BY <2>2 DEF SameFile, Calendar
<1>3. SameFile(Released(c), c)
  BY DEF SameFile, Released, Calendar
<1>4. SameFile(ReadOnly(c), c)
  BY DEF SameFile, ReadOnly, Calendar
<1>5. SameFile(Queued(c, op), c)
  <2>1. PICK queue : queue = Append(c.queue, op)
    OBVIOUS
  <2>2. Queued(c, op) = [c EXCEPT !.queue = queue]
    BY <2>1 DEF Queued, Calendar
  <2>. QED BY <2>2 DEF SameFile, Calendar
<1>6. SameFile(Lock(c), c)
  BY DEF SameFile, Lock, Calendar
<1>. QED BY <1>1, <1>2, <1>3, <1>4, <1>5, <1>6

LEMMA NothingQueued ==
  ASSUME NEW S, NEW q \in Seq(S), Len(q) = 0
  PROVE  q = <<>>
OBVIOUS

(* d is what processQueue makes of an unlocked calendar c.                 *)
Processed(d, c) ==
  /\ d.etag = c.etag /\ d.loaded = c.loaded
  /\ d.pending["backup"] = 1 \/ d.mem = c.mem
  /\ \A i \in Item : d.mem[i] # c.mem[i] => Touched(d, i)
  /\ d.pending["get"] = 1 /\ LastSeen(c) = 0 => d.known = 0
  /\ Forced(c.queue) => d.pending["backup"] = 1 \/ Reloads(d)
  /\ OnlyRefreshes(c.queue) =>
       /\ d.pending["backup"] = 0 /\ OnlyRefreshes(d.queue)
       /\ c.queue # <<>> => d.pending["get"] = 1
  /\ (\A k \in DOMAIN c.queue : c.queue[k].kind # "refresh") => d.queue = <<>>

LEMMA WriteLeaves ==
  ASSUME NEW m, NEW v, NEW c \in Calendar(m, v), c.pending = Nothing,
         NEW d, d = WriteICS(c)
  PROVE  /\ SameFile(d, c) /\ d.mem = c.mem /\ d.queue = c.queue
         /\ d.actions = c.actions
         /\ d.pending["backup"] = 1 /\ d.pending["get"] = 0
<1>1. PICK e : e = [c EXCEPT !.locked = TRUE]
  OBVIOUS
<1>2. e \in Calendar(m, v) /\ d = Await(e, "backup") /\ e = Lock(c)
  BY <1>1 DEF Calendar, WriteICS, Lock
<1>3. /\ e.pending = c.pending /\ e.queue = c.queue /\ e.mem = c.mem
      /\ e.actions = c.actions
  BY <1>1 DEF Calendar
<1>4. SameQueue(d, e) /\ d.pending = Only("backup")
  BY <1>2, <1>3, AwaitKeeps, Callbacks
<1>5. SameFile(d, e) /\ SameFile(e, c)
  BY <1>2, FileLeftAlone, Callbacks
<1>6. Only("backup")["backup"] = 1 /\ Only("backup")["get"] = 0
  BY Callbacks DEF Only
<1>. QED BY <1>3, <1>4, <1>5, <1>6 DEF SameFile, SameQueue

LEMMA DoRefreshLeaves ==
  ASSUME NEW m, NEW v \in Nat, NEW c \in Calendar(m, v), c.pending = Nothing,
         NEW forced \in BOOLEAN, NEW d, d = DoRefresh(c, forced)
  PROVE  /\ d.etag = c.etag /\ d.loaded = c.loaded /\ d.mem = c.mem
         /\ d.queue = c.queue
         /\ d.known = IF forced THEN 0 ELSE LastSeen(c)
         /\ d.pending["get"] = 1 /\ d.pending["backup"] = 0
<1>1. PICK known \in 0..v : known = IF forced THEN 0 ELSE LastSeen(c)
  BY DEF Calendar, LastSeen
<1>2. PICK e : e = [c EXCEPT !.locked = TRUE, !.known = known]
  OBVIOUS
<1>3. e \in Calendar(m, v) /\ d = Await(e, "get")
  BY <1>1, <1>2 DEF Calendar, DoRefresh, Lock
<1>4. /\ e.pending = c.pending /\ e.queue = c.queue /\ e.mem = c.mem
      /\ e.etag = c.etag /\ e.loaded = c.loaded /\ e.known = known
  BY <1>2 DEF Calendar
<1>5. SameQueue(d, e) /\ d.pending = Only("get")
  BY <1>3, <1>4, AwaitKeeps, Callbacks
<1>6. SameFile(d, e)
  BY <1>3, FileLeftAlone, Callbacks
<1>7. Only("get")["get"] = 1 /\ Only("get")["backup"] = 0
  BY Callbacks DEF Only
<1>. QED BY <1>1, <1>4, <1>5, <1>6, <1>7 DEF SameFile, SameQueue

LEMMA ProcessShows ==
  ASSUME NEW m, NEW v \in Nat, NEW c \in Calendar(m, v), Ready(c),
         NEW d, d = ProcessQueue(c)
  PROVE  Processed(d, c)
<1>1. PICK b : b = Round(c)
  OBVIOUS
<1>2. PICK N \in Nat : N = Len(c.queue) /\ DOMAIN c.queue = 1..N
  <2>1. c.queue \in Seq(Op(m))
    BY DEF Calendar
  <2>. QED BY <2>1
<1>3. /\ b \in RoundState(m, v) /\ RoundOK(b, c, N) /\ b.stop # "threw"
  BY <1>1, <1>2, RoundKeeps DEF Ready, DeletionsOK
<1>4. RoundShows(b, c, N)
  BY <1>1, <1>2, <1>3, RoundKeepsShowing
<1>5. PICK left : left = [b.c EXCEPT !.queue = b.rest]
  OBVIOUS
<1>6. left \in Calendar(m, v)
  BY <1>3, <1>5 DEF RoundState, Calendar
<1>7. /\ left.queue = b.rest /\ left.pending = Nothing
      /\ left.actions = b.c.actions /\ left.mem = b.c.mem
      /\ left.etag = c.etag /\ left.modified = c.modified
      /\ left.loaded = c.loaded
  BY <1>3, <1>4, <1>5 DEF RoundState, RoundOK, RoundShows, SameLock, Calendar, Ready
<1>8. d = CASE b.stop = "threw" -> left
            [] b.stop # "threw" /\ b.write ->
                 WriteICS(IF b.stop = "refresh"
                          THEN [left EXCEPT !.queue = <<b.refresh>> \o @] ELSE left)
            [] b.stop = "refresh" /\ ~b.write -> DoRefresh(left, b.refresh.forced)
            [] OTHER -> left
  BY <1>1, <1>5 DEF ProcessQueue, Ready
<1>9. \A i \in Item : b.c.mem[i] # c.mem[i] => Touched(left, i)
  BY <1>4, <1>7 DEF RoundShows, Touched
<1>10. /\ OnlyRefreshes(c.queue) <=> \A j \in 1..N : c.queue[j].kind = "refresh"
       /\ Forced(c.queue) <=> \E j \in 1..N : c.queue[j].kind = "refresh" /\ c.queue[j].forced
  BY <1>2 DEF OnlyRefreshes, Forced
<1>11. CASE b.write
  <2>1. ~OnlyRefreshes(c.queue)
    BY <1>4, <1>10, <1>11 DEF RoundShows
  <2>2. PICK x \in Calendar(m, v) :
          /\ d = WriteICS(x) /\ x.pending = Nothing
          /\ x.actions = left.actions /\ x.mem = left.mem
          /\ x.etag = left.etag /\ x.loaded = left.loaded
          /\ b.stop = "no" => x.queue = <<>>
    <3>1. CASE b.stop = "refresh"
      <4>1. PICK queue : queue = <<b.refresh>> \o b.rest
        OBVIOUS
      <4>2. b.rest \in Seq(Op(m)) /\ b.refresh \in Op(m)
        BY <1>3, <3>1 DEF RoundState, RoundOK, Op
      <4>3. queue \in Seq(Op(m))
        BY <4>1, <4>2
      <4>4. PICK x : x = [left EXCEPT !.queue = queue]
        OBVIOUS
      <4>5. x \in Calendar(m, v)
        BY <1>6, <4>3, <4>4 DEF Calendar
      <4>6. /\ x.pending = left.pending /\ x.actions = left.actions
            /\ x.mem = left.mem /\ x.etag = left.etag /\ x.loaded = left.loaded
        BY <1>6, <4>4 DEF Calendar
      <4>7. d = WriteICS(x)
        BY <1>6, <1>7, <1>8, <1>11, <3>1, <4>1, <4>4 DEF Calendar
      <4>. QED BY <1>7, <3>1, <4>5, <4>6, <4>7
    <3>2. CASE b.stop = "no"
      <4>1. d = WriteICS(left) /\ b.rest = <<>>
        BY <1>3, <1>8, <1>11, <3>2 DEF RoundOK
      <4>. QED BY <1>6, <1>7, <4>1
    <3>. QED BY <1>3, <3>1, <3>2 DEF RoundState
  <2>3. /\ SameFile(d, x) /\ d.mem = x.mem /\ d.queue = x.queue
        /\ d.actions = x.actions
        /\ d.pending["backup"] = 1 /\ d.pending["get"] = 0
    BY <2>2, WriteLeaves
  <2>4. \A i \in Item : d.mem[i] # c.mem[i] => Touched(d, i)
    BY <1>7, <1>9, <2>2, <2>3 DEF Touched
  <2>5. (\A k \in DOMAIN c.queue : c.queue[k].kind # "refresh") => d.queue = <<>>
    BY <1>2, <1>3, <1>4, <2>2, <2>3 DEF RoundShows, RoundState
  <2>. QED BY <1>7, <2>1, <2>2, <2>3, <2>4, <2>5 DEF Processed, SameFile
<1>12. CASE ~b.write /\ b.stop = "refresh"
  <2>1. PICK forced \in BOOLEAN : forced = b.refresh.forced
    BY <1>3, <1>12 DEF RoundOK, Refreshes
  <2>2. d = DoRefresh(left, forced)
    BY <1>8, <1>12, <2>1
  <2>3. /\ d.etag = left.etag /\ d.loaded = left.loaded /\ d.mem = left.mem
        /\ d.queue = left.queue
        /\ d.known = IF forced THEN 0 ELSE LastSeen(left)
        /\ d.pending["get"] = 1 /\ d.pending["backup"] = 0
    BY <1>6, <1>7, <2>2, DoRefreshLeaves
  <2>4. d.mem = c.mem
    BY <1>4, <1>7, <1>12, <2>3 DEF RoundShows
  <2>5. Forced(c.queue) => Reloads(d)
    BY <1>4, <1>7, <1>10, <1>12, <2>1, <2>3 DEF RoundShows, Reloads
  <2>6. OnlyRefreshes(c.queue) => OnlyRefreshes(d.queue)
    BY <1>4, <1>7, <1>10, <2>3 DEF RoundShows
  <2>7. ~\A k \in DOMAIN c.queue : c.queue[k].kind # "refresh"
    BY <1>2, <1>4, <1>12 DEF RoundShows
  <2>8. LastSeen(left) = LastSeen(c)
    BY <1>7 DEF LastSeen
  <2>. QED BY <1>7, <2>3, <2>4, <2>5, <2>6, <2>7, <2>8 DEF Processed
<1>13. CASE ~b.write /\ b.stop = "no"
  <2>1. d = left /\ N = 0 /\ b.rest = <<>>
    BY <1>3, <1>4, <1>8, <1>13 DEF RoundShows, RoundOK
  <2>2. d.mem = c.mem /\ d.queue = <<>>
    BY <1>4, <1>7, <1>13, <2>1 DEF RoundShows
  <2>3. c.queue = <<>>
    <3>1. c.queue \in Seq(Op(m)) /\ Len(c.queue) = 0
      BY <1>2, <2>1 DEF Calendar
    <3>. QED BY <3>1, NothingQueued
  <2>4. OnlyRefreshes(<<>>) /\ ~Forced(<<>>)
    BY DEF OnlyRefreshes, Forced
  <2>5. d.pending["backup"] = 0 /\ d.pending["get"] = 0
    BY <1>7, <2>1, Callbacks DEF Nothing
  <2>. QED BY <1>7, <2>1, <2>2, <2>3, <2>4, <2>5 DEF Processed
<1>. QED BY <1>3, <1>11, <1>12, <1>13 DEF RoundState

-----------------------------------------------------------------------------
(* The circumstances, which do not change.                                 *)

LEMMA Excluded ==
  /\ Quiet => /\ Without({"gone"}) /\ Without({"notUtf8", "notIcs"}) /\ ~Has("race")
  /\ Without({"gone", "pipelined"}) <=> Without({"gone"}) /\ Without({"pipelined"})
  /\ Without({"pipelined"}) => ~Has("pipelined")
  /\ Without({"pipelined", "getFails"}) => Without({"pipelined"}) /\ ~Has("getFails")
  /\ Without({"getFails", "neverLoaded"}) => ~Has("getFails") /\ ~Has("neverLoaded")
  /\ Without({"neverLoaded"}) => ~Has("neverLoaded")
  /\ Has("putFails") \/ Has("openFails") => UploadMayFail
  /\ Without({"noEtag", "unversioned"}) => ~Has("noEtag") /\ ~Has("unversioned")
  /\ Alone => ~Has("others")
  /\ Without({"notUtf8", "notIcs"}) => {"notUtf8", "notIcs"} \cap case.env = {}
BY DEF Quiet, Without, Has, UploadMayFail, Alone

LEMMA StaleOrUnasked ==
  /\ NothingUnasked => StaleIsReloaded
  /\ StaleIsReloaded => Quiet
BY DEF NothingUnasked, StaleIsReloaded, Without

LEMMA ShowStep ==
  ASSUME case' = case, file'.version > 0,
         Without({"notUtf8", "notIcs"}) => file'.form = "ok",
         Without({"gone", "pipelined"}) /\ cal'.locked => OnlyRefreshes(cal'.queue),
         Quiet => UploadFits(cal', file'),
         StaleIsReloaded => Shows(cal', file'),
         NothingUnasked => KnowsFile(cal') /\ AskedFor(cal', file') /\ unasked' = {}
  PROVE  ShowInv'
<1>1. /\ Quiet' <=> Quiet
      /\ StaleIsReloaded' <=> StaleIsReloaded
      /\ NothingUnasked' <=> NothingUnasked
      /\ UploadMayFail' <=> UploadMayFail
      /\ Alone' <=> Alone
  BY DEF Quiet, StaleIsReloaded, NothingUnasked, UploadMayFail, Alone, Without
<1>2. /\ Without({"notUtf8", "notIcs"})' <=> Without({"notUtf8", "notIcs"})
      /\ Without({"gone", "pipelined"})' <=> Without({"gone", "pipelined"})
  BY DEF Without
<1>3. UploadFits(cal', file') => UploadFits(cal, file)'
  BY <1>1 DEF UploadFits, Http, Has
<1>4. Shows(cal', file') => Shows(cal, file)'
  BY <1>1 DEF Shows, Current, Reloads, Forced
<1>5. KnowsFile(cal') /\ AskedFor(cal', file') => KnowsFile(cal)' /\ AskedFor(cal, file)'
  BY <1>1 DEF KnowsFile, Knows, AskedFor, Current, Touched
<1>6. OnlyRefreshes(cal'.queue) => OnlyRefreshes(cal.queue)'
  BY DEF OnlyRefreshes
<1>. QED BY <1>1, <1>2, <1>3, <1>4, <1>5, <1>6 DEF ShowInv

(* A step that ends with processQueue: a calendar whose items were the
   file's, or that is going to reload them.                                *)
LEMMA ProcessedStep ==
  ASSUME ShowInv, UNCHANGED <<case, file, unasked>>, NEW c,
         Without({"gone"}) => Calm(cal') /\ Processed(cal', c),
         Without({"gone", "pipelined"}) => OnlyRefreshes(cal'.queue),
         StaleIsReloaded /\ Current(c, file) =>
           \/ c.mem = file.items
           \/ /\ UploadMayFail /\ Forced(c.queue)
              /\ Without({"pipelined"}) => OnlyRefreshes(c.queue),
         NothingUnasked => Knows(c)
  PROVE  ShowInv'
<1>1. file' = file /\ unasked' = unasked
  OBVIOUS
<1>2. Quiet => UploadFits(cal', file)
  BY Excluded DEF Calm, UploadFits
<1>3. StaleIsReloaded => Shows(cal', file)
  BY Excluded, StaleOrUnasked DEF Processed, Shows, Current
<1>4. ASSUME NothingUnasked PROVE KnowsFile(cal') /\ AskedFor(cal', file)
  <2>1. Calm(cal') /\ Processed(cal', c) /\ StaleIsReloaded
    BY <1>4, Excluded, StaleOrUnasked
  <2>2. KnowsFile(cal')
    BY <1>4, <2>1 DEF KnowsFile, Knows, Processed
  <2>3. ASSUME cal'.pending["backup"] = 1, Current(cal', file)
        PROVE  c.mem = file.items
    <3>1. ~OnlyRefreshes(c.queue) /\ Current(c, file)
      BY <2>1, <2>3 DEF Processed, Current
    <3>2. UploadMayFail => OnlyRefreshes(c.queue) \/ c.mem = file.items
      BY <1>4, <2>1, <3>1, Excluded DEF NothingUnasked
    <3>. QED BY <2>1, <3>1, <3>2
  <2>4. AskedFor(cal', file)
    BY <2>1, <2>3 DEF AskedFor, Calm, Processed
  <2>. QED BY <2>2, <2>4
<1>. QED BY <1>1, <1>2, <1>3, <1>4, ShowStep DEF ShowInv

LEMMA UnlockProcesses ==
  ASSUME NEW m, NEW v \in Nat, NEW c \in Calendar(m, v), NEW failed,
         Unlock(c, failed), c.pending = Nothing, Doable(c.queue, c.mem)
  PROVE  Calm(cal') /\ Processed(cal', c)
<1>1. PICK x : x = Released(c)
  OBVIOUS
<1>2. /\ x \in Calendar(m, v) /\ ~x.locked /\ x.actions = <<>>
      /\ x.queue = c.queue /\ x.pending = c.pending /\ x.mem = c.mem
  BY <1>1, ReleasedKeeps
<1>3. x.etag = c.etag /\ x.modified = c.modified /\ x.loaded = c.loaded
  BY <1>1, FileLeftAlone, Callbacks DEF SameFile
<1>4. Ready(x)
  BY <1>2 DEF Ready
<1>5. cal' = ProcessQueue(x)
  BY <1>1 DEF Unlock
<1>6. Calm(cal') /\ Processed(cal', x)
  BY <1>2, <1>4, <1>5, ProcessQueueKeeps, ProcessShows
<1>. QED BY <1>2, <1>3, <1>6 DEF Processed, LastSeen

LEMMA UnlockShows ==
  ASSUME ShowInv, UNCHANGED <<case, file, unasked>>,
         NEW m, NEW v \in Nat, NEW c \in Calendar(m, v), NEW failed,
         Unlock(c, failed),
         Without({"gone"}) =>
           /\ c.pending = Nothing /\ Doable(c.queue, c.mem)
           /\ Without({"pipelined"}) => OnlyRefreshes(c.queue),
         StaleIsReloaded /\ Current(c, file) =>
           c.mem = file.items \/ (UploadMayFail /\ Forced(c.queue)),
         NothingUnasked => Knows(c)
  PROVE  ShowInv'
<1>1. Without({"gone"}) => Calm(cal') /\ Processed(cal', c)
  BY UnlockProcesses
<1>2. Without({"gone", "pipelined"}) => OnlyRefreshes(cal'.queue)
  BY <1>1, Excluded DEF Processed
<1>3. StaleIsReloaded /\ Current(c, file) =>
        \/ c.mem = file.items
        \/ /\ UploadMayFail /\ Forced(c.queue)
           /\ Without({"pipelined"}) => OnlyRefreshes(c.queue)
  BY Excluded, StaleOrUnasked
<1>. QED BY <1>1, <1>2, <1>3, ProcessedStep

LEMMA PutFailsShows ==
  ASSUME ShowInv, UNCHANGED <<case, file, unasked>>,
         NEW m, NEW v \in Nat, NEW c \in Calendar(m, v), PutFails(c),
         Without({"gone"}) =>
           /\ c.locked /\ c.pending = Nothing /\ Doable(c.queue, c.mem)
           /\ Without({"pipelined"}) => OnlyRefreshes(c.queue),
         StaleIsReloaded /\ Current(c, file) => c.mem = file.items \/ UploadMayFail,
         NothingUnasked => Knows(c)
  PROVE  ShowInv'
<1>1. PICK r : r = ReadOnly(c)
  OBVIOUS
<1>2. /\ r \in Calendar(m, v) /\ SameQueue(r, c) /\ r.pending = c.pending
      /\ r.etag = c.etag /\ r.loaded = c.loaded
  BY <1>1, ReadOnlyKeeps, FileLeftAlone, Callbacks DEF SameFile
<1>3. PICK op : op = [kind |-> "refresh", forced |-> TRUE]
  OBVIOUS
<1>4. op \in Op(m) /\ MayFollow(op, r)
  BY <1>3, RefreshIsOp
<1>5. PICK d : d = Queued(r, op)
  OBVIOUS
<1>6. /\ d \in Calendar(m, v) /\ d.queue = Append(r.queue, op)
      /\ d.locked = r.locked /\ d.pending = r.pending
      /\ d.mem = r.mem
      /\ Doable(r.queue, r.mem) => Doable(d.queue, d.mem)
  BY <1>2, <1>4, <1>5, AppendKeeps
<1>7. d.etag = r.etag /\ d.loaded = r.loaded
  BY <1>2, <1>5, FileLeftAlone, Callbacks DEF SameFile
<1>8. /\ OnlyRefreshes(r.queue) => OnlyRefreshes(d.queue)
      /\ Forced(d.queue)
  <2>1. r.queue \in Seq(Op(m))
    BY <1>2 DEF Calendar
  <2>. QED BY <1>3, <1>4, <1>6, <2>1, AppendRefreshes
<1>9. PICK p : p = ProcessQueue(d)
  OBVIOUS
<1>10. p \in Calendar(m, v) /\ (d.locked => p = d)
  BY <1>6, <1>9, ProcessQueueKeeps
<1>11. Unlock(p, TRUE)
  BY <1>1, <1>3, <1>5, <1>9 DEF PutFails, Queued
<1>12. Without({"gone"}) => p = d
  BY <1>2, <1>6, <1>10 DEF SameQueue
<1>13. Without({"gone"}) =>
         /\ p.pending = Nothing /\ Doable(p.queue, p.mem)
         /\ Without({"pipelined"}) => OnlyRefreshes(p.queue)
  BY <1>2, <1>6, <1>8, <1>12 DEF SameQueue
<1>14. StaleIsReloaded /\ Current(p, file) =>
         p.mem = file.items \/ (UploadMayFail /\ Forced(p.queue))
  BY <1>2, <1>6, <1>7, <1>8, <1>12, Excluded, StaleOrUnasked DEF Current, SameQueue
<1>15. NothingUnasked => Knows(p)
  BY <1>2, <1>7, <1>12, Excluded, StaleOrUnasked DEF Knows
<1>. QED BY <1>10, <1>11, <1>13, <1>14, <1>15, UnlockShows

-----------------------------------------------------------------------------
(* The network's steps.                                                    *)

LEMMA Came ==
  ASSUME Inv, ShowInv, NEW b \in Callback, cal.pending[b] > 0,
         NEW c, c = Received(cal, b)
  PROVE  /\ made.changes \in Nat /\ file.version \in Nat
         /\ c \in Calendar(made.changes, file.version)
         /\ SameQueue(c, cal) /\ SameFile(c, cal)
         /\ Without({"gone"}) =>
              /\ c.locked /\ c.pending = Nothing /\ Doable(c.queue, c.mem)
              /\ Without({"pipelined"}) => OnlyRefreshes(c.queue)
              /\ \A d \in Callback : cal.pending[d] = IF d = b THEN 1 ELSE 0
<1>1. /\ made.changes \in Nat /\ file.version \in Nat
      /\ cal \in Calendar(made.changes, file.version)
  BY TypesNow DEF Inv
<1>2. /\ c \in Calendar(made.changes, file.version) /\ SameQueue(c, cal)
      /\ cal.pending = Only(b) => c.pending = Nothing
  BY <1>1, ReceivedKeeps
<1>3. SameFile(c, cal)
  BY <1>1, FileLeftAlone
<1>4. ASSUME Without({"gone"})
      PROVE  /\ cal.locked /\ cal.pending = Only(b) /\ Doable(cal.queue, cal.mem)
             /\ Without({"pipelined"}) => OnlyRefreshes(cal.queue)
  BY <1>4, WaitsForOne, Excluded DEF Inv, ShowInv
<1>5. \A d \in Callback : Only(b)[d] = IF d = b THEN 1 ELSE 0
  BY DEF Only
<1>. QED BY <1>1, <1>2, <1>3, <1>4, <1>5 DEF SameQueue

LEMMA GetAnsweredShows == ASSUME Inv, ShowInv, GetAnswered PROVE ShowInv'
<1>1. cal.pending["get"] > 0 /\ UNCHANGED <<case, file, unasked>>
  BY DEF GetAnswered
<1>2. PICK c : c = Received(cal, "get")
  OBVIOUS
<1>3. PICK v \in Nat, m \in Nat :
        /\ v = file.version /\ c \in Calendar(m, v)
        /\ SameQueue(c, cal) /\ SameFile(c, cal)
        /\ Without({"gone"}) =>
             /\ c.locked /\ c.pending = Nothing /\ Doable(c.queue, c.mem)
             /\ Without({"pipelined"}) => OnlyRefreshes(c.queue)
             /\ \A d \in Callback : cal.pending[d] = IF d = "get" THEN 1 ELSE 0
        /\ file \in File(m)
  BY <1>1, <1>2, Came, Callbacks DEF Inv, Types
<1>4. Without({"gone"}) =>
        c.pending = Nothing /\ c.actions = <<>> /\ NoDeletion(c.queue)
  BY <1>1, <1>3, WaitsForOne, Callbacks DEF Inv, SameQueue
<1>5. Quiet => cal.pending["backup"] = 0 /\ cal.pending["put"] = 0
  BY <1>3, Excluded, Callbacks
<1>6. v > 0
  BY <1>3 DEF ShowInv
(* The data are kept. *)
<1>7. ASSUME Unlock(c, FALSE), NotModified \/ Has(IF cal.loaded THEN "getFails" ELSE "neverLoaded")
      PROVE  ShowInv'
  <2>1. ASSUME StaleIsReloaded, Current(c, file)
        PROVE  c.mem = file.items \/ (UploadMayFail /\ Forced(c.queue))
    <3>1. \/ cal.mem = file.items
          \/ UploadMayFail /\ Reloads(cal)
      BY <1>3, <1>5, <2>1, StaleOrUnasked DEF ShowInv, Shows, Current, SameFile
    <3>2. UploadMayFail => NotModified
      BY <1>7, <2>1, Excluded DEF StaleIsReloaded
    <3>3. UploadMayFail /\ Reloads(cal) => Forced(cal.queue)
      BY <3>2 DEF Reloads, NotModified
    <3>. QED BY <1>3, <3>1, <3>3 DEF SameQueue
  <2>2. ASSUME NothingUnasked PROVE Knows(c)
    <3>1. KnowsFile(cal) /\ ~Has("neverLoaded")
      BY <2>2, Excluded DEF ShowInv, NothingUnasked
    <3>2. Knows(cal)
      BY <1>7, <3>1 DEF KnowsFile, NotModified
    <3>. QED BY <1>3, <3>2 DEF Knows, SameFile
  <2>. QED BY <1>1, <1>3, <1>7, <2>1, <2>2, UnlockShows
(* The file has been read. *)
<1>8. PICK etag \in 0..v : etag = IF Http /\ Has("unversioned") THEN 0 ELSE v
  OBVIOUS
<1>9. PICK seen : seen = [c EXCEPT !.modified = v, !.etag = etag]
  OBVIOUS
<1>10. seen \in Calendar(m, v)
  <2>1. v \in 0..v
    OBVIOUS
  <2>. QED BY <1>3, <1>9, <2>1 DEF Calendar
<1>11. /\ seen.pending = c.pending /\ seen.queue = c.queue /\ seen.etag = etag
  BY <1>3, <1>9 DEF Calendar
<1>12. ASSUME NEW x \in Calendar(m, v), x.pending = c.pending, x.queue = c.queue,
              x.etag = etag, Quiet => x.mem = file.items /\ x.loaded, Unlock(x, FALSE)
       PROVE  ShowInv'
  <2>1. Without({"gone"}) =>
          /\ x.pending = Nothing /\ Doable(x.queue, x.mem)
          /\ Without({"pipelined"}) => OnlyRefreshes(x.queue)
    BY <1>3, <1>4, <1>12, NoDeletionIsDoable
  <2>2. StaleIsReloaded /\ Current(x, file) =>
          x.mem = file.items \/ (UploadMayFail /\ Forced(x.queue))
    BY <1>12, StaleOrUnasked
  <2>3. NothingUnasked => Knows(x)
    BY <1>6, <1>8, <1>12, Excluded DEF NothingUnasked, Knows
  <2>. QED BY <1>1, <1>12, <2>1, <2>2, <2>3, UnlockShows
<1>13. ASSUME Unlock(ReadOnly(seen), FALSE), file.form = "notUtf8" PROVE ShowInv'
  <2>1. PICK x : x = ReadOnly(seen)
    OBVIOUS
  <2>2. /\ x \in Calendar(m, v) /\ SameQueue(x, seen) /\ x.pending = seen.pending
        /\ x.etag = seen.etag
    BY <1>10, <2>1, ReadOnlyKeeps, FileLeftAlone, Callbacks DEF SameFile
  <2>3. ~Quiet
    BY <1>13, Excluded DEF ShowInv
  <2>. QED BY <1>11, <1>12, <1>13, <2>1, <2>2, <2>3 DEF SameQueue
<1>14. ASSUME NEW mem \in [Item -> Holding(m)], Quiet => mem = file.items,
              Unlock([seen EXCEPT !.mem = mem, !.loaded = TRUE], FALSE)
       PROVE  ShowInv'
  <2>1. PICK x : x = [seen EXCEPT !.mem = mem, !.loaded = TRUE]
    OBVIOUS
  <2>2. x \in Calendar(m, v)
    BY <1>10, <1>14, <2>1 DEF Calendar
  <2>3. /\ x.pending = seen.pending /\ x.queue = seen.queue
        /\ x.etag = seen.etag /\ x.mem = mem /\ x.loaded
    BY <1>10, <2>1 DEF Calendar
  <2>. QED BY <1>11, <1>12, <1>14, <2>1, <2>2, <2>3
<1>15. NoItems \in [Item -> Holding(m)] /\ file.items \in [Item -> Holding(m)]
  BY <1>3 DEF NoItems, Holding, File
<1>16. file.form = "notIcs" => ~Quiet
  BY Excluded DEF ShowInv
<1>17. \/ /\ Unlock(c, FALSE)
          /\ NotModified \/ Has(IF cal.loaded THEN "getFails" ELSE "neverLoaded")
       \/ Unlock(ReadOnly(seen), FALSE) /\ file.form = "notUtf8"
       \/ /\ Unlock([seen EXCEPT !.mem = NoItems, !.loaded = TRUE], FALSE)
          /\ file.form = "notIcs"
       \/ Unlock([seen EXCEPT !.mem = file.items, !.loaded = TRUE], FALSE)
  BY <1>2, <1>3, <1>8, <1>9 DEF GetAnswered
<1>. QED BY <1>7, <1>13, <1>14, <1>15, <1>16, <1>17

(* Once the first download is over the calendar knows the file. *)
LEMMA VersionKnown ==
  ASSUME ShowInv, NothingUnasked, cal.pending["get"] = 0
  PROVE  Knows(cal)
BY DEF ShowInv, KnowsFile

LEMMA BackupDoneShows == ASSUME Inv, ShowInv, BackupDone PROVE ShowInv'
<1>1. cal.pending["backup"] > 0 /\ UNCHANGED <<case, file, unasked>>
  BY DEF BackupDone
<1>2. PICK c : c = Received(cal, "backup")
  OBVIOUS
<1>3. PICK v \in Nat, m \in Nat :
        /\ v = file.version /\ c \in Calendar(m, v)
        /\ SameQueue(c, cal) /\ SameFile(c, cal)
        /\ Without({"gone"}) =>
             /\ c.locked /\ c.pending = Nothing /\ Doable(c.queue, c.mem)
             /\ Without({"pipelined"}) => OnlyRefreshes(c.queue)
             /\ \A d \in Callback : cal.pending[d] = IF d = "backup" THEN 1 ELSE 0
  BY <1>1, <1>2, Came, Callbacks
<1>4. NothingUnasked => Knows(c)
  BY <1>3, Excluded, StaleOrUnasked, VersionKnown, Callbacks DEF SameFile, Knows
<1>5. PICK r : r = ReadOnly(c)
  OBVIOUS
<1>6. /\ r \in Calendar(m, v) /\ SameQueue(r, c) /\ r.pending = c.pending
      /\ r.etag = c.etag /\ r.loaded = c.loaded
  BY <1>3, <1>5, ReadOnlyKeeps, FileLeftAlone, Callbacks DEF SameFile
<1>7. Without({"gone"}) =>
        /\ r.pending = Nothing /\ Doable(r.queue, r.mem)
        /\ Without({"pipelined"}) => OnlyRefreshes(r.queue)
  BY <1>3, <1>6 DEF SameQueue
<1>8. ASSUME Unlock(r, TRUE), c.etag # 0, c.etag # file.version PROVE ShowInv'
  BY <1>1, <1>4, <1>6, <1>7, <1>8, UnlockShows DEF Current, Knows
(* The refresh comes after the queue has been gone through. *)
<1>9. ASSUME Has("openFails"), cal' = Refresh(ProcessQueue(Released(r)), TRUE)
      PROVE  ShowInv'
  <2>1. PICK x : x = Released(r)
    OBVIOUS
  <2>2. /\ x \in Calendar(m, v) /\ ~x.locked /\ x.actions = <<>>
        /\ x.queue = r.queue /\ x.pending = r.pending /\ x.mem = r.mem
        /\ x.etag = r.etag /\ x.loaded = r.loaded
    BY <1>6, <2>1, ReleasedKeeps, FileLeftAlone, Callbacks DEF SameFile
  <2>3. PICK y : y = ProcessQueue(x)
    OBVIOUS
  <2>4. PICK op : op = [kind |-> "refresh", forced |-> TRUE]
    OBVIOUS
  <2>5. op \in Op(m) /\ MayFollow(op, y)
    BY <2>4, RefreshIsOp
  <2>6. PICK d : d = Queued(y, op)
    OBVIOUS
  <2>7. cal' = ProcessQueue(d)
    BY <1>9, <2>1, <2>3, <2>4, <2>6 DEF Refresh, Enqueue, Queued
  <2>8. y \in Calendar(m, v)
    BY <2>2, <2>3, ProcessQueueKeeps
  <2>9. /\ d \in Calendar(m, v) /\ d.queue = Append(y.queue, op)
        /\ d.locked = y.locked /\ d.pending = y.pending
        /\ d.actions = y.actions /\ d.mem = y.mem
        /\ Doable(y.queue, y.mem) => Doable(d.queue, d.mem)
        /\ SameFile(d, y)
    BY <2>5, <2>6, <2>8, AppendKeeps, FileLeftAlone, Callbacks
  <2>10. /\ OnlyRefreshes(y.queue) => OnlyRefreshes(d.queue)
         /\ Forced(d.queue)
    <3>1. y.queue \in Seq(Op(m))
      BY <2>8 DEF Calendar
    <3>. QED BY <2>4, <2>5, <2>9, <3>1, AppendRefreshes
  <2>11. ASSUME Without({"gone"}) PROVE Calm(y) /\ Processed(y, x)
    <3>1. Ready(x)
      BY <1>7, <2>2, <2>11 DEF Ready
    <3>. QED BY <2>2, <2>3, <3>1, ProcessQueueKeeps, ProcessShows
  <2>12. NothingUnasked => Knows(x)
    BY <1>4, <1>6, <2>2 DEF Knows
  <2>13. UploadMayFail
    BY <1>9, Excluded
  <2>14. CASE ~Without({"gone"})
    BY <1>1, <2>14, Excluded, StaleOrUnasked, ShowStep DEF ShowInv
  <2>15. CASE Without({"gone"}) /\ ~y.locked
    <3>1. y.pending = Nothing /\ y.queue = <<>> /\ y.actions = <<>>
      BY <2>11, <2>15 DEF Calm, Orderly
    <3>2. Doable(y.queue, y.mem)
      BY <3>1 DEF Doable
    <3>3. Ready(d)
      BY <2>9, <2>15, <3>1, <3>2 DEF Ready
    <3>4. Calm(cal') /\ Processed(cal', d)
      BY <2>7, <2>9, <3>3, ProcessQueueKeeps, ProcessShows
    <3>5. OnlyRefreshes(d.queue)
      BY <2>10, <3>1, AppendRefreshes DEF OnlyRefreshes
    <3>6. NothingUnasked => Knows(d)
      BY <2>9, <2>11, <2>12, <2>15 DEF Processed, SameFile, Knows
    <3>7. OnlyRefreshes(cal'.queue)
      BY <3>4, <3>5 DEF Processed
    <3>. QED BY <1>1, <2>10, <2>13, <3>4, <3>5, <3>6, <3>7, ProcessedStep
  <2>16. CASE Without({"gone"}) /\ y.locked
    <3>1. cal' = d
      BY <2>7, <2>9, <2>16, ProcessQueueKeeps
    <3>2. Without({"pipelined"}) =>
            /\ y.pending["backup"] = 0 /\ OnlyRefreshes(d.queue)
      BY <1>7, <2>2, <2>10, <2>11, <2>16 DEF Processed
    <3>3. Without({"gone", "pipelined"}) => OnlyRefreshes(cal'.queue)
      BY <3>1, <3>2, Excluded
    <3>4. UploadFits(cal', file)
      BY <2>9, <2>11, <2>16, <3>1 DEF Calm, UploadFits
    <3>5. Shows(cal', file)
      BY <2>10, <2>13, <3>1 DEF Shows, Reloads
    <3>6. ASSUME NothingUnasked PROVE KnowsFile(cal') /\ AskedFor(cal', file)
      <4>1. Knows(d)
        BY <2>9, <2>11, <2>12, <2>16, <3>6 DEF Processed, SameFile, Knows
      <4>2. Without({"pipelined"})
        BY <2>13, <3>6, Excluded DEF NothingUnasked
      <4>3. d.pending["backup"] = 0 /\ d.pending["put"] = 0
        BY <2>9, <2>11, <2>16, <3>2, <4>2 DEF Calm
      <4>. QED BY <3>1, <4>1, <4>3 DEF KnowsFile, AskedFor
    <3>. QED BY <1>1, <3>3, <3>4, <3>5, <3>6, ShowStep DEF ShowInv
  <2>. QED BY <2>14, <2>15, <2>16
<1>10. ASSUME ~(~Http /\ c.etag # 0 /\ c.etag # file.version),
              cal' = Await([c EXCEPT !.body = c.mem, !.match = c.etag], "put")
       PROVE  ShowInv'
  <2>1. PICK x : x = [c EXCEPT !.body = c.mem, !.match = c.etag]
    OBVIOUS
  <2>2. c.mem \in [Item -> Holding(m)] /\ c.etag \in 0..v
    BY <1>3 DEF Calendar
  <2>3. x \in Calendar(m, v)
    BY <1>3, <2>1, <2>2 DEF Calendar
  <2>4. SameQueue(x, c) /\ x.pending = c.pending
    BY <1>3, <2>1 DEF Calendar, SameQueue
  <2>5. x.body = c.mem /\ x.match = c.etag /\ x.etag = c.etag /\ x.loaded = c.loaded
    BY <1>3, <2>1 DEF Calendar
  <2>6. PICK y : y = Await(x, "put")
    OBVIOUS
  <2>7. /\ SameQueue(y, x) /\ SameFile(y, x)
        /\ x.pending = Nothing => y.pending = Only("put")
    BY <2>3, <2>6, AwaitKeeps, FileLeftAlone, Callbacks
  <2>8. cal' = y
    BY <1>10, <2>1, <2>6
  <2>9. /\ y.queue = cal.queue /\ y.actions = cal.actions /\ y.mem = cal.mem
        /\ y.locked = cal.locked /\ y.etag = cal.etag /\ y.loaded = cal.loaded
        /\ y.body = cal.mem /\ y.match = cal.etag
    BY <1>3, <2>4, <2>5, <2>7 DEF SameQueue, SameFile
  <2>10. Without({"gone"}) =>
           /\ y.pending["put"] = 1 /\ y.pending["get"] = 0 /\ y.pending["backup"] = 0
           /\ y.pending["answer"] = 0 /\ y.pending["etag"] = 0
    BY <1>3, <2>4, <2>7, Callbacks DEF Only
  <2>11. Without({"gone", "pipelined"}) /\ y.locked => OnlyRefreshes(y.queue)
    BY <2>9 DEF ShowInv
  <2>12. Quiet => UploadFits(y, file)
    BY <1>3, <1>10, <2>9, <2>10, Excluded DEF UploadFits, SameFile
  <2>13. StaleIsReloaded => Shows(y, file)
    BY <2>10, Excluded, StaleOrUnasked DEF Shows
  <2>14. ASSUME NothingUnasked PROVE KnowsFile(y) /\ AskedFor(y, file)
    <3>1. Knows(y)
      BY <1>3, <1>4, <2>9, <2>14 DEF SameFile, Knows
    <3>2. Quiet /\ AskedFor(cal, file)
      BY <2>14, StaleOrUnasked DEF ShowInv
    <3>3. AskedFor(y, file)
      BY <1>3, <2>9, <3>2, Excluded, Callbacks DEF AskedFor, Current, Touched
    <3>. QED BY <3>1, <3>3 DEF KnowsFile
  <2>. QED BY <1>1, <2>8, <2>11, <2>12, <2>13, <2>14, ShowStep DEF ShowInv
<1>11. \/ Unlock(r, TRUE) /\ c.etag # 0 /\ c.etag # file.version
       \/ Has("openFails") /\ cal' = Refresh(ProcessQueue(Released(r)), TRUE)
       \/ /\ ~(~Http /\ c.etag # 0 /\ c.etag # file.version)
          /\ cal' = Await([c EXCEPT !.body = c.mem, !.match = c.etag], "put")
  BY <1>2, <1>5 DEF BackupDone
<1>. QED BY <1>8, <1>9, <1>10, <1>11

LEMMA PutStoredShows == ASSUME Inv, ShowInv, PutStored PROVE ShowInv'
<1>1. cal.pending["put"] > 0 /\ Matches /\ case' = case
  BY DEF PutStored
<1>2. PICK v \in Nat : v = file.version
  BY TypesNow DEF Inv
<1>3. PICK m : m = made.changes
  OBVIOUS
<1>4. cal \in Calendar(m, v + 1) /\ cal \in Calendar(m, v)
  <2>1. m \in Nat /\ cal \in Calendar(m, v)
    BY <1>2, <1>3, TypesNow DEF Inv
  <2>. QED BY <2>1, TypesGrow
<1>5. PICK c : c = [cal EXCEPT !.ours = v + 1]
  OBVIOUS
<1>6. v + 1 \in 0..(v + 1)
  OBVIOUS
<1>7. c \in Calendar(m, v + 1)
  BY <1>4, <1>5, <1>6 DEF Calendar
<1>8. /\ SameQueue(c, cal) /\ c.pending = cal.pending
      /\ c.etag = cal.etag /\ c.loaded = cal.loaded
      /\ c.body = cal.body /\ c.ours = v + 1
  BY <1>4, <1>5 DEF Calendar, SameQueue
<1>9. PICK d : d = Received(c, "put")
  OBVIOUS
<1>10. /\ d \in Calendar(m, v + 1) /\ SameQueue(d, c) /\ SameFile(d, c)
       /\ c.pending = Only("put") => d.pending = Nothing
  BY <1>1, <1>7, <1>8, <1>9, ReceivedKeeps, FileLeftAlone, Callbacks
<1>11. PICK e : e = Await(d, "answer")
  OBVIOUS
<1>12. /\ SameQueue(e, d) /\ SameFile(e, d)
       /\ d.pending = Nothing => e.pending = Only("answer")
  BY <1>10, <1>11, AwaitKeeps, FileLeftAlone, Callbacks
<1>13. /\ file' = [items |-> cal.body, version |-> v + 1, form |-> "ok"]
       /\ cal' = e
  BY <1>2, <1>5, <1>9, <1>11 DEF PutStored
<1>14. /\ e.queue = cal.queue /\ e.mem = cal.mem /\ e.locked = cal.locked
       /\ e.loaded = cal.loaded
       /\ e.etag = cal.etag /\ e.body = cal.body /\ e.ours = v + 1
  BY <1>8, <1>10, <1>12 DEF SameQueue, SameFile
<1>15. Without({"gone"}) =>
         /\ cal.pending = Only("put")
         /\ cal.pending["put"] = 1 /\ cal.pending["get"] = 0
         /\ e.pending["put"] = 0 /\ e.pending["get"] = 0 /\ e.pending["backup"] = 0
         /\ e.pending["etag"] = 0
  <2>. SUFFICES ASSUME Without({"gone"})
                PROVE  /\ cal.pending = Only("put")
                       /\ cal.pending["put"] = 1 /\ cal.pending["get"] = 0
                       /\ e.pending["put"] = 0 /\ e.pending["get"] = 0
                       /\ e.pending["backup"] = 0 /\ e.pending["etag"] = 0
    OBVIOUS
  <2>1. cal.pending = Only("put")
    BY <1>1, WaitsForOne, Callbacks DEF Inv
  <2>2. e.pending = Only("answer")
    BY <1>8, <1>10, <1>12, <2>1
  <2>. QED BY <2>1, <2>2, Callbacks DEF Only
<1>16. Quiet => UploadFits(cal, file) /\ cal.body = cal.mem /\ cal.match = cal.etag
  BY <1>15, Excluded DEF ShowInv, UploadFits
<1>17. cal.etag \in 0..v
  BY <1>4 DEF Calendar
<1>18. Quiet => UploadFits(e, file')
  BY <1>13, <1>14, <1>15, <1>16, <1>17, Excluded DEF UploadFits
<1>19. StaleIsReloaded => Shows(e, file')
  BY <1>13, <1>14, <1>16, <1>17, StaleOrUnasked DEF Shows, Current
<1>20. ASSUME NothingUnasked
       PROVE  KnowsFile(e) /\ AskedFor(e, file') /\ unasked' = {}
  <2>1. Without({"gone"}) /\ Quiet
    BY <1>20, Excluded, StaleOrUnasked
  <2>2. Knows(cal)
    BY <1>15, <1>20, <2>1, VersionKnown
  <2>3. Current(cal, file)
    BY <1>1, <1>15, <1>16, <2>1, <2>2 DEF Matches, UploadFits, Knows, Current
  <2>4. \A i \in Item : cal.mem[i] # file.items[i] => Touched(cal, i)
    BY <1>15, <1>20, <2>1, <2>3 DEF ShowInv, AskedFor
  <2>5. unasked' = {}
    <3>1. \A i \in Item : file'.items[i] = cal.mem[i]
      BY <1>13, <1>16, <2>1
    <3>2. unasked = {}
      BY <1>20 DEF ShowInv
    <3>. QED BY <2>4, <3>1, <3>2 DEF PutStored, Touched
  <2>6. AskedFor(e, file')
    BY <1>15, <2>1 DEF AskedFor
  <2>. QED BY <1>14, <2>2, <2>5, <2>6 DEF KnowsFile, Knows
<1>21. Without({"gone", "pipelined"}) /\ e.locked => OnlyRefreshes(e.queue)
  BY <1>14 DEF ShowInv
<1>22. file'.version > 0 /\ file'.form = "ok"
  BY <1>13
<1>. QED BY <1>1, <1>13, <1>18, <1>19, <1>20, <1>21, <1>22, ShowStep

LEMMA PutRefusedShows == ASSUME Inv, ShowInv, PutRefused PROVE ShowInv'
<1>1. /\ cal.pending["put"] > 0 /\ UNCHANGED <<case, file, unasked>>
      /\ ~Matches \/ Has("putFails")
  BY DEF PutRefused
<1>2. PICK c : c = Received(cal, "put")
  OBVIOUS
<1>3. PICK v \in Nat, m \in Nat :
        /\ v = file.version /\ c \in Calendar(m, v)
        /\ SameQueue(c, cal) /\ SameFile(c, cal)
        /\ Without({"gone"}) =>
             /\ c.locked /\ c.pending = Nothing /\ Doable(c.queue, c.mem)
             /\ Without({"pipelined"}) => OnlyRefreshes(c.queue)
             /\ \A d \in Callback : cal.pending[d] = IF d = "put" THEN 1 ELSE 0
  BY <1>1, <1>2, Came, Callbacks
<1>4. PutFails(c)
  BY <1>2 DEF PutRefused
<1>5. NothingUnasked => Knows(c)
  BY <1>3, Excluded, StaleOrUnasked, VersionKnown, Callbacks DEF SameFile, Knows
<1>6. ASSUME StaleIsReloaded, Current(c, file) PROVE UploadMayFail
  <2>1. UploadFits(cal, file) /\ cal.pending["put"] = 1
    BY <1>3, <1>6, Excluded, StaleOrUnasked, Callbacks DEF ShowInv
  <2>2. Matches
    BY <1>3, <1>6, <2>1 DEF UploadFits, Matches, Current, SameFile
  <2>. QED BY <1>1, <2>2, Excluded
<1>. QED BY <1>1, <1>3, <1>4, <1>5, <1>6, PutFailsShows

(* The upload is in the file, or others have changed the file since.       *)
LEMMA AnswerFits ==
  ASSUME ShowInv, Quiet, NEW etag,
         cal.pending["answer"] = 1 \/ cal.pending["etag"] = 1,
         Http => etag = cal.ours
  PROVE  etag = file.version \/ Alone => cal.mem = file.items
BY DEF ShowInv, UploadFits

LEMMA PutAnsweredShows == ASSUME Inv, ShowInv, PutAnswered PROVE ShowInv'
<1>1. cal.pending["answer"] > 0 /\ UNCHANGED <<case, file, unasked>>
  BY DEF PutAnswered
<1>2. PICK c : c = Received(cal, "answer")
  OBVIOUS
<1>3. PICK v \in Nat, m \in Nat :
        /\ v = file.version /\ c \in Calendar(m, v)
        /\ SameQueue(c, cal) /\ SameFile(c, cal)
        /\ Without({"gone"}) =>
             /\ c.locked /\ c.pending = Nothing /\ Doable(c.queue, c.mem)
             /\ Without({"pipelined"}) => OnlyRefreshes(c.queue)
             /\ \A d \in Callback : cal.pending[d] = IF d = "answer" THEN 1 ELSE 0
  BY <1>1, <1>2, Came, Callbacks
<1>4. NothingUnasked => Knows(c)
  BY <1>3, Excluded, StaleOrUnasked, VersionKnown, Callbacks DEF SameFile, Knows
<1>5. Quiet => UploadFits(cal, file) /\ cal.pending["answer"] = 1
  BY <1>3, Excluded, Callbacks DEF ShowInv
<1>6. ASSUME PutFails(c) PROVE ShowInv'
  <2>1. StaleIsReloaded /\ Current(c, file) => c.mem = file.items
    BY <1>3, <1>5, StaleOrUnasked DEF UploadFits, Current, SameFile, SameQueue, Calendar
  <2>. QED BY <1>1, <1>3, <1>4, <1>6, <2>1, PutFailsShows
<1>7. ASSUME Http, Has("noEtag"), cal' = Await(c, "etag") PROVE ShowInv'
  <2>1. PICK y : y = Await(c, "etag")
    OBVIOUS
  <2>2. /\ SameQueue(y, c) /\ SameFile(y, c)
        /\ c.pending = Nothing => y.pending = Only("etag")
    <3>1. c \in Calendar(m, v)
      BY <1>3
    <3>2. SameQueue(y, c) /\ (c.pending = Nothing => y.pending = Only("etag"))
      BY <2>1, <3>1, AwaitKeeps, Callbacks
    <3>3. SameFile(y, c)
      BY <2>1, <3>1, FileLeftAlone, Callbacks
    <3>. QED BY <3>2, <3>3
  <2>3. /\ y.queue = cal.queue /\ y.mem = cal.mem /\ y.locked = cal.locked
        /\ y.etag = cal.etag /\ y.loaded = cal.loaded /\ y.body = cal.body /\ y.ours = cal.ours
    BY <1>3, <2>2 DEF SameQueue, SameFile
  <2>4. Without({"gone"}) =>
          /\ y.pending["put"] = 0 /\ y.pending["get"] = 0 /\ y.pending["backup"] = 0
    BY <1>3, <2>2, Callbacks DEF Only
  <2>5. Quiet => UploadFits(y, file)
    BY <1>5, <1>7, <2>3, <2>4, Excluded DEF UploadFits
  <2>6. StaleIsReloaded => Shows(y, file)
    BY <1>3, <1>5, <2>3, StaleOrUnasked DEF Shows, Current, UploadFits, SameFile, Calendar
  <2>7. NothingUnasked => KnowsFile(y) /\ AskedFor(y, file)
    BY <1>3, <1>4, <2>3, <2>4, Excluded, StaleOrUnasked DEF KnowsFile, Knows, AskedFor, SameFile
  <2>8. Without({"gone", "pipelined"}) /\ y.locked => OnlyRefreshes(y.queue)
    BY <2>3 DEF ShowInv
  <2>. QED BY <1>1, <1>7, <2>1, <2>5, <2>6, <2>7, <2>8, ShowStep DEF ShowInv
<1>8. PICK etag : etag = IF Http THEN c.ours ELSE v
  OBVIOUS
<1>9. etag \in 0..v
  BY <1>3, <1>8 DEF Calendar
<1>10. PICK done : done = [c EXCEPT !.etag = etag]
  OBVIOUS
<1>11. done \in Calendar(m, v)
  BY <1>3, <1>9, <1>10 DEF Calendar
<1>12. /\ SameQueue(done, c) /\ done.pending = c.pending
       /\ done.etag = etag /\ done.loaded = c.loaded
  BY <1>3, <1>10 DEF Calendar, SameQueue
<1>13. Without({"gone"}) =>
         /\ done.pending = Nothing /\ Doable(done.queue, done.mem)
         /\ Without({"pipelined"}) => OnlyRefreshes(done.queue)
  BY <1>3, <1>12 DEF SameQueue
<1>14. StaleIsReloaded /\ Current(done, file) => done.mem = file.items
  <2>1. Http => etag = cal.ours
    BY <1>3, <1>8 DEF SameFile
  <2>. QED BY <1>3, <1>5, <1>12, <2>1, StaleOrUnasked, AnswerFits DEF SameQueue, Current
<1>15. NothingUnasked => Knows(done)
  <2>1. NothingUnasked => etag # 0
    BY <1>3, <1>5, <1>8, StaleOrUnasked DEF ShowInv, UploadFits, SameFile
  <2>. QED BY <1>4, <1>12, <2>1 DEF Knows
<1>16. ASSUME Unlock(done, FALSE) PROVE ShowInv'
  BY <1>1, <1>11, <1>13, <1>14, <1>15, <1>16, UnlockShows
<1>17. ASSUME Throws(Released(done)) PROVE ShowInv'
  <2>1. PICK x : x = Released(done)
    OBVIOUS
  <2>2. x \in Calendar(m, v) /\ x.queue = done.queue /\ x.mem = done.mem
    BY <1>11, <2>1, ReleasedKeeps
  <2>3. ~Doable(x.queue, x.mem)
    BY <1>17, <2>1, <2>2, RoundKeeps DEF Throws, DeletionsOK
  <2>4. ~Without({"gone"})
    BY <1>13, <2>2, <2>3
  <2>. QED BY <1>1, <2>4, Excluded, StaleOrUnasked, ShowStep DEF ShowInv
<1>18. \/ PutFails(c)
       \/ Http /\ Has("noEtag") /\ cal' = Await(c, "etag")
       \/ Throws(Released(done)) \/ Unlock(done, FALSE)
  BY <1>2, <1>3, <1>8, <1>10 DEF PutAnswered
<1>. QED BY <1>6, <1>7, <1>16, <1>17, <1>18

LEMMA EtagAnsweredShows == ASSUME Inv, ShowInv, EtagAnswered PROVE ShowInv'
<1>1. cal.pending["etag"] > 0 /\ UNCHANGED <<case, file, unasked>>
  BY DEF EtagAnswered
<1>2. PICK c : c = Received(cal, "etag")
  OBVIOUS
<1>3. PICK v \in Nat, m \in Nat :
        /\ v = file.version /\ c \in Calendar(m, v)
        /\ SameQueue(c, cal) /\ SameFile(c, cal)
        /\ Without({"gone"}) =>
             /\ c.locked /\ c.pending = Nothing /\ Doable(c.queue, c.mem)
             /\ Without({"pipelined"}) => OnlyRefreshes(c.queue)
             /\ \A d \in Callback : cal.pending[d] = IF d = "etag" THEN 1 ELSE 0
  BY <1>1, <1>2, Came, Callbacks
<1>4. PICK x : x = [c EXCEPT !.etag = 0]
  OBVIOUS
<1>5. 0 \in 0..v
  BY <1>3
<1>6. x \in Calendar(m, v)
  BY <1>3, <1>4, <1>5 DEF Calendar
<1>7. /\ SameQueue(x, c) /\ x.pending = c.pending
      /\ x.etag = 0 /\ x.loaded = c.loaded
  BY <1>3, <1>4 DEF Calendar, SameQueue
<1>8. Without({"gone"}) =>
        /\ x.pending = Nothing /\ Doable(x.queue, x.mem)
        /\ Without({"pipelined"}) => OnlyRefreshes(x.queue)
  BY <1>3, <1>7 DEF SameQueue
<1>9. Quiet => /\ cal.pending["etag"] = 1 /\ cal.pending["get"] = 0
               /\ Http /\ Has("noEtag")
  BY <1>3, Excluded, Callbacks DEF ShowInv, UploadFits
(* A server that does not name the versions is known only to a calendar
   that is the only one to change the file.                                *)
<1>10. StaleIsReloaded /\ Alone => c.mem = file.items
  BY <1>3, <1>9, StaleOrUnasked, AnswerFits DEF SameQueue
<1>11. NothingUnasked => Alone /\ c.loaded
  <2>1. NothingUnasked => Knows(cal) /\ Alone
    BY <1>9, Excluded, StaleOrUnasked, VersionKnown DEF NothingUnasked
  <2>. QED BY <1>3, <2>1 DEF Knows, SameFile
<1>12. ASSUME Unlock(x, FALSE) PROVE ShowInv'
  <2>1. StaleIsReloaded /\ Current(x, file) => x.mem = file.items
    BY <1>3, <1>7, <1>10 DEF Current, ShowInv, SameQueue
  <2>2. NothingUnasked => Knows(x)
    BY <1>7, <1>11 DEF Knows
  <2>. QED BY <1>1, <1>6, <1>8, <1>12, <2>1, <2>2, UnlockShows
(* Nothing else is to come, and nothing changes any more. *)
<1>13. ASSUME cal' = c PROVE ShowInv'
  <2>1. /\ c.mem = cal.mem /\ c.queue = cal.queue /\ c.locked = cal.locked
        /\ c.etag = cal.etag /\ c.loaded = cal.loaded
    BY <1>3 DEF SameQueue, SameFile
  <2>2. Without({"gone", "pipelined"}) /\ c.locked => OnlyRefreshes(c.queue)
    BY <2>1 DEF ShowInv
  <2>3. Without({"gone"}) =>
          /\ c.pending["put"] = 0 /\ c.pending["backup"] = 0
          /\ c.pending["answer"] = 0 /\ c.pending["etag"] = 0
    BY <1>3, Callbacks DEF Nothing
  <2>4. Quiet => UploadFits(c, file)
    BY <2>3, Excluded DEF UploadFits
  <2>5. StaleIsReloaded => Shows(c, file)
    <3>1. StaleIsReloaded => c.etag # file.version
      BY <1>3, <1>9, <2>1, StaleOrUnasked DEF ShowInv, UploadFits, Calendar
    <3>. QED BY <1>10, <3>1 DEF Shows, Current
  <2>6. NothingUnasked => KnowsFile(c) /\ AskedFor(c, file)
    BY <1>11, <2>3, Excluded, StaleOrUnasked DEF KnowsFile, Knows, AskedFor
  <2>. QED BY <1>1, <1>13, <2>2, <2>4, <2>5, <2>6, ShowStep DEF ShowInv
<1>14. Unlock(x, FALSE) \/ cal' = c
  BY <1>2, <1>4 DEF EtagAnswered
<1>. QED BY <1>12, <1>13, <1>14


-----------------------------------------------------------------------------
(* The user and the others.                                                *)

LEMMA EnqueuedShows ==
  ASSUME Inv, ShowInv, made' \in [changes : 0..MaxChanges, refreshes : Nat, others : Nat],
         made.changes <= made'.changes,
         NEW op \in Op(made'.changes), cal' = Enqueue(cal, op),
         UNCHANGED <<case, file, unasked>>,
         Without({"gone"}) => MayFollow(op, cal),
         cal.locked /\ Without({"pipelined"}) => op.kind = "refresh"
  PROVE  ShowInv'
<1>1. /\ made.changes \in Nat /\ file.version \in Nat
      /\ cal \in Calendar(made.changes, file.version)
  BY TypesNow DEF Inv
<1>2. PICK m \in Nat : m = made'.changes
  BY ICSAssumption DEF ICSAssumption
<1>3. PICK v \in Nat : v = file.version
  BY <1>1
<1>4. cal \in Calendar(m, v)
  BY <1>1, <1>2, <1>3, TypesGrow
<1>5. PICK x : x = Queued(cal, op)
  OBVIOUS
<1>6. /\ x \in Calendar(m, v) /\ x.queue = Append(cal.queue, op)
      /\ x.locked = cal.locked /\ x.pending = cal.pending
      /\ x.actions = cal.actions /\ x.mem = cal.mem
      /\ MayFollow(op, cal) /\ Doable(cal.queue, cal.mem) => Doable(x.queue, x.mem)
  BY <1>2, <1>4, <1>5, AppendKeeps
<1>7. SameFile(x, cal)
  BY <1>4, <1>5, FileLeftAlone, Callbacks
<1>8. cal' = ProcessQueue(x)
  BY <1>5 DEF Enqueue, Queued
<1>9. /\ OnlyRefreshes(cal.queue) /\ op.kind = "refresh" => OnlyRefreshes(x.queue)
      /\ Forced(cal.queue) => Forced(x.queue)
      /\ OnlyRefreshes(<<>>) /\ ~Forced(<<>>)
  <2>1. cal.queue \in Seq(Op(m)) /\ op \in Op(m)
    BY <1>2, <1>4 DEF Calendar
  <2>. QED BY <1>6, <2>1, AppendRefreshes
<1>10. file' = file /\ case' = case /\ unasked' = unasked
  OBVIOUS
<1>11. CASE cal.locked
  <2>1. cal' = x
    BY <1>6, <1>8, <1>11, ProcessQueueKeeps
  <2>2. Without({"gone", "pipelined"}) /\ x.locked => OnlyRefreshes(x.queue)
    BY <1>9, <1>11, Excluded DEF ShowInv
  <2>3. Quiet => UploadFits(x, file)
    BY <1>6, <1>7 DEF ShowInv, UploadFits, SameFile
  <2>4. StaleIsReloaded => Shows(x, file)
    BY <1>6, <1>7, <1>9 DEF ShowInv, Shows, Current, Reloads, SameFile
  <2>5. NothingUnasked => KnowsFile(x) /\ AskedFor(x, file)
    BY <1>6, <1>7 DEF ShowInv, KnowsFile, Knows, AskedFor, Current, Touched, SameFile
  <2>. QED BY <1>10, <2>1, <2>2, <2>3, <2>4, <2>5, ShowStep DEF ShowInv
<1>12. CASE ~cal.locked /\ Without({"gone"})
  <2>1. cal.pending = Nothing /\ cal.queue = <<>> /\ cal.actions = <<>>
    BY <1>12 DEF Inv, Orderly
  <2>2. /\ cal.pending["get"] = 0 /\ cal.pending["backup"] = 0
        /\ cal.pending["put"] = 0
    BY <2>1, Callbacks DEF Nothing
  <2>3. Doable(<<>>, cal.mem)
    BY DEF Doable
  <2>4. Ready(x)
    BY <1>6, <1>12, <2>1, <2>3 DEF Ready
  <2>5. Calm(cal') /\ Processed(cal', x)
    BY <1>6, <1>8, <2>4, ProcessQueueKeeps, ProcessShows
  <2>6. OnlyRefreshes(cal'.queue)
    <3>1. CASE op.kind = "refresh"
      BY <1>9, <2>1, <2>5, <3>1 DEF Processed
    <3>2. CASE op.kind # "refresh"
      <4>1. PICK q : q = Append(<<>>, op)
        OBVIOUS
      <4>2. \A k \in DOMAIN q : q[k] = op
        BY <4>1
      <4>3. \A k \in DOMAIN x.queue : x.queue[k].kind # "refresh"
        BY <1>6, <2>1, <3>2, <4>1, <4>2
      <4>. QED BY <1>9, <2>5, <4>3 DEF Processed
    <3>. QED BY <3>1, <3>2
  <2>7. StaleIsReloaded /\ Current(x, file) => x.mem = file.items
    BY <1>6, <1>7, <1>9, <2>1, <2>2 DEF ShowInv, Shows, Current, Reloads, SameFile
  <2>8. NothingUnasked => Knows(x)
    BY <1>7, <2>2, VersionKnown DEF SameFile, Knows
  <2>. QED BY <2>5, <2>6, <2>7, <2>8, ProcessedStep
<1>13. CASE ~Without({"gone"})
  BY <1>10, <1>13, Excluded, StaleOrUnasked, ShowStep DEF ShowInv
<1>. QED BY <1>11, <1>12, <1>13

LEMMA RequestShows ==
  ASSUME Inv, ShowInv, NEW kind \in {"add", "modify", "delete"}, NEW i \in Item,
         NEW new \in Holding(made.changes + 1), kind # "delete" => new # Absent,
         Request(kind, i, new),
         Without({"gone"}) /\ kind = "delete" =>
           /\ cal.mem[i] # Absent /\ cal.pending["get"] = 0
           /\ \A k \in DOMAIN cal.queue :
                /\ cal.queue[k].kind # "refresh"
                /\ cal.queue[k].kind = "delete" => cal.queue[k].item # i
  PROVE  ShowInv'
<1>1. cal.locked /\ Without({"pipelined"}) => FALSE
  BY Excluded DEF Request
<1>. QED BY <1>1, RequestIsOp, EnqueuedShows

LEMMA AdoptShows == ASSUME Inv, ShowInv, NEW i \in Item, AdoptItem(i) PROVE ShowInv'
BY AdoptIsRequest, RequestShows

LEMMA ModifyShows == ASSUME Inv, ShowInv, NEW i \in Item, ModifyItem(i) PROVE ShowInv'
BY ModifyIsRequest, RequestShows

LEMMA DeleteShows == ASSUME Inv, ShowInv, NEW i \in Item, DeleteItem(i) PROVE ShowInv'
BY DeleteIsRequest, RequestShows

LEMMA RefreshRequestedShows == ASSUME Inv, ShowInv, RefreshRequested PROVE ShowInv'
<1>1. PICK op : op = [kind |-> "refresh", forced |-> FALSE]
  OBVIOUS
<1>2. /\ made' \in [changes : 0..MaxChanges, refreshes : Nat, others : Nat]
      /\ made.changes <= made'.changes
  <2>1. /\ made \in [changes : 0..MaxChanges, refreshes : Nat, others : Nat]
        /\ made.changes \in Nat
    BY TypesNow DEF Inv, Types
  <2>2. made' = [made EXCEPT !.refreshes = made.refreshes + 1]
    BY DEF RefreshRequested
  <2>. QED BY <2>1, <2>2
<1>3. op \in Op(made'.changes) /\ MayFollow(op, cal) /\ op.kind = "refresh"
  BY <1>1, RefreshIsOp
<1>4. cal' = Enqueue(cal, op) /\ UNCHANGED <<case, file, unasked>>
  BY <1>1 DEF RefreshRequested, Refresh
<1>. QED BY <1>2, <1>3, <1>4, EnqueuedShows

(* A calendar of which only readOnly changes. *)
LEMMA SameCalendarShows ==
  ASSUME Inv, ShowInv, UNCHANGED <<case, file, unasked>>,
         SameQueue(cal', cal), SameFile(cal', cal), cal'.pending = cal.pending
  PROVE  ShowInv'
<1>1. file' = file /\ case' = case /\ unasked' = unasked
  OBVIOUS
<1>2. Without({"gone", "pipelined"}) /\ cal'.locked => OnlyRefreshes(cal'.queue)
  BY DEF ShowInv, SameQueue
<1>3. Quiet => UploadFits(cal', file)
  BY DEF ShowInv, UploadFits, SameFile, SameQueue
<1>4. StaleIsReloaded => Shows(cal', file)
  BY DEF ShowInv, Shows, Current, Reloads, SameFile, SameQueue
<1>5. NothingUnasked => KnowsFile(cal') /\ AskedFor(cal', file)
  BY DEF ShowInv, KnowsFile, Knows, AskedFor, Current, Touched, SameFile, SameQueue
<1>. QED BY <1>1, <1>2, <1>3, <1>4, <1>5, ShowStep DEF ShowInv

LEMMA EnableWritingShows == ASSUME Inv, ShowInv, EnableWriting PROVE ShowInv'
<1>1. PICK c : c = [cal EXCEPT !.readOnly = FALSE]
  OBVIOUS
<1>2. cal' = c /\ UNCHANGED <<case, file, unasked>>
  BY <1>1 DEF EnableWriting
<1>3. cal \in Calendar(made.changes, file.version)
  BY TypesNow DEF Inv
<1>4. SameQueue(c, cal) /\ SameFile(c, cal) /\ c.pending = cal.pending
  BY <1>1, <1>3 DEF Calendar, SameQueue, SameFile
<1>. QED BY <1>2, <1>4, SameCalendarShows

LEMMA OthersWrite ==
  ASSUME OthersChange
  PROVE  \/ \E items : file' = [items |-> items, version |-> file.version + 1, form |-> "ok"]
         \/ \E form \in {"notUtf8", "notIcs"} \cap case.env :
              file' = [file EXCEPT !.version = file.version + 1, !.form = form]
<1>1. CASE \E i \in Item : \E new \in {Absent, [file.items[i] EXCEPT !.v = IF @ = 1 THEN 2 ELSE 1]} :
             /\ new # file.items[i]
             /\ file' = [items |-> [file.items EXCEPT ![i] = new],
                         version |-> file.version + 1, form |-> "ok"]
  <2>1. PICK items : file' = [items |-> items, version |-> file.version + 1, form |-> "ok"]
    BY <1>1
  <2>. QED BY <2>1
<1>2. CASE \E form \in {"notUtf8", "notIcs"} \cap case.env :
             file' = [file EXCEPT !.version = file.version + 1, !.form = form]
  BY <1>2
<1>. QED BY <1>1, <1>2 DEF OthersChange

LEMMA OthersRace ==
  ASSUME OthersChange,
         ~Http /\ cal.pending["put"] + cal.pending["answer"] > 0
  PROVE  Has("race")
BY DEF OthersChange

(* Only without a race does a new version of the others leave everything as
   it was: an upload that has been stored is then recognised by its own.   *)
LEMMA OthersChangeShows == ASSUME Inv, ShowInv, OthersChange PROVE ShowInv'
<1>1. case' = case /\ cal' = cal /\ unasked' = unasked
  BY DEF OthersChange
<1>2. /\ file.version \in Nat
      /\ cal \in Calendar(made.changes, file.version)
      /\ file \in File(made.changes)
  BY TypesNow DEF Inv, Types
<1>3. PICK next \in Nat : next = file.version + 1
  BY <1>2
<1>4. \/ \E items : file' = [items |-> items, version |-> next, form |-> "ok"]
      \/ \E form \in {"notUtf8", "notIcs"} \cap case.env :
           file' = [file EXCEPT !.version = next, !.form = form]
  BY <1>3, OthersWrite
<1>5. /\ cal.etag \in 0..file.version /\ cal.ours \in 0..file.version
      /\ \A b \in Callback : cal.pending[b] \in Nat
  BY <1>2 DEF Calendar
<1>6. /\ file'.version = file.version + 1
      /\ Without({"notUtf8", "notIcs"}) => file'.form = "ok"
  <2>1. CASE \E items : file' = [items |-> items, version |-> next, form |-> "ok"]
    BY <1>3, <2>1
  <2>2. ASSUME NEW form \in {"notUtf8", "notIcs"} \cap case.env,
               file' = [file EXCEPT !.version = next, !.form = form]
        PROVE  file'.version = next /\ ~Without({"notUtf8", "notIcs"})
    BY <1>2, <2>2, Excluded DEF File
  <2>. QED BY <1>3, <1>4, <2>1, <2>2
<1>7. Quiet => UploadFits(cal, file')
  <2>1. SUFFICES ASSUME Quiet PROVE UploadFits(cal, file')
    OBVIOUS
  <2>2. UploadFits(cal, file) /\ ~Has("race")
    BY <2>1, Excluded DEF ShowInv
  <2>3. Http \/ (cal.pending["put"] = 0 /\ cal.pending["answer"] = 0)
    BY <1>5, <2>2, Callbacks, OthersRace
  <2>4. ~Alone
    BY Excluded DEF OthersChange
  <2>. QED BY <1>2, <1>5, <1>6, <2>2, <2>3, <2>4 DEF UploadFits
<1>8. Shows(cal, file') /\ AskedFor(cal, file')
  <2>1. ~Alone
    BY Excluded DEF OthersChange
  <2>. QED BY <1>2, <1>5, <1>6, <2>1 DEF Shows, AskedFor, Current
<1>9. file'.version > 0
  BY <1>2, <1>6
<1>10. /\ Without({"gone", "pipelined"}) /\ cal.locked => OnlyRefreshes(cal.queue)
       /\ NothingUnasked => KnowsFile(cal) /\ unasked = {}
  BY DEF ShowInv
<1>. QED BY <1>1, <1>6, <1>7, <1>8, <1>9, <1>10, ShowStep

-----------------------------------------------------------------------------
(* The invariant of the items, and what it says.                           *)

LEMMA InitShows == ASSUME Init PROVE ShowInv
<1>1. PICK c : c = [queue |-> <<>>, actions |-> <<>>, locked |-> FALSE,
                    pending |-> Nothing, mem |-> NoItems,
                    etag |-> 0, modified |-> 0, readOnly |-> FALSE, known |-> 0,
                    body |-> NoItems, match |-> 0, ours |-> 0, loaded |-> FALSE]
  OBVIOUS
<1>2. NoItems \in [Item -> Holding(0)] /\ Nothing \in [Callback -> Nat]
  BY DEF NoItems, Holding, Nothing
<1>3. <<>> \in Seq(Op(0)) /\ <<>> \in Seq(Action) /\ 0 \in 0..1
  OBVIOUS
<1>4. c \in Calendar(0, 1)
  BY <1>1, <1>2, <1>3 DEF Calendar
<1>5. PICK op : op = [kind |-> "refresh", forced |-> FALSE]
  OBVIOUS
<1>6. op \in Op(0) /\ op.kind = "refresh"
  BY <1>5, RefreshIsOp
<1>7. PICK x : x = Queued(c, op)
  OBVIOUS
<1>8. /\ x \in Calendar(0, 1) /\ x.queue = Append(c.queue, op)
      /\ x.locked = c.locked /\ x.pending = c.pending /\ x.actions = c.actions
      /\ SameFile(x, c)
  BY <1>4, <1>6, <1>7, AppendKeeps, FileLeftAlone, Callbacks
<1>9. OnlyRefreshes(x.queue) /\ x.queue # <<>>
  <2>1. PICK q \in Seq(Op(0)) : q = <<>> /\ c.queue = q
    BY <1>1, <1>3
  <2>2. OnlyRefreshes(q) /\ OnlyRefreshes(Append(q, op))
    BY <1>6, <2>1, AppendRefreshes
  <2>3. Append(q, op) # <<>>
    BY <1>6, <2>1
  <2>. QED BY <1>8, <2>1, <2>2, <2>3
<1>10. Ready(x)
  <2>1. Doable(x.queue, x.mem)
    BY <1>9 DEF OnlyRefreshes, Doable
  <2>. QED BY <1>1, <1>8, <2>1 DEF Ready
<1>11. cal = ProcessQueue(x)
  BY <1>1, <1>5, <1>7 DEF Init, Refresh, Enqueue, Queued, Nothing
<1>12. Calm(cal) /\ Processed(cal, x)
  BY <1>8, <1>10, <1>11, ProcessQueueKeeps, ProcessShows
<1>13. /\ cal.etag = 0 /\ ~cal.loaded /\ cal.known = 0
       /\ cal.pending["get"] = 1 /\ cal.pending["backup"] = 0
       /\ cal.pending["put"] = 0 /\ cal.pending["answer"] = 0 /\ cal.pending["etag"] = 0
       /\ OnlyRefreshes(cal.queue)
  BY <1>1, <1>8, <1>9, <1>12 DEF Processed, LastSeen, Calm, SameFile
<1>14. file.version = 1 /\ file.form = "ok" /\ unasked = {}
  BY DEF Init
<1>15. UploadFits(cal, file) /\ Shows(cal, file) /\ KnowsFile(cal) /\ AskedFor(cal, file)
  BY <1>13, <1>14 DEF UploadFits, Shows, Current, KnowsFile, AskedFor
<1>. QED BY <1>13, <1>14, <1>15 DEF ShowInv

LEMMA NextShows == ASSUME Inv, ShowInv, [Next]_vars PROVE ShowInv'
<1>1. CASE Network
  BY <1>1, GetAnsweredShows, BackupDoneShows, PutStoredShows, PutRefusedShows,
     PutAnsweredShows, EtagAnsweredShows DEF Network
<1>2. CASE \E i \in Item : AdoptItem(i) \/ ModifyItem(i) \/ DeleteItem(i)
  BY <1>2, AdoptShows, ModifyShows, DeleteShows
<1>3. CASE RefreshRequested \/ EnableWriting \/ OthersChange
  BY <1>3, RefreshRequestedShows, EnableWritingShows, OthersChangeShows
<1>4. CASE UNCHANGED vars
  <2>1. SameQueue(cal', cal) /\ SameFile(cal', cal) /\ cal'.pending = cal.pending
    BY <1>4 DEF SameQueue, SameFile, vars
  <2>. QED BY <1>4, <2>1, SameCalendarShows DEF vars
<1>. QED BY <1>1, <1>2, <1>3, <1>4 DEF Next

LEMMA ShowAlways == Spec => []ShowInv
<1>1. Init => ShowInv
  BY InitShows
<1>2. Inv /\ ShowInv /\ [Next]_vars => ShowInv'
  BY NextShows
<1>. QED BY <1>1, <1>2, InvAlways, PTL DEF Spec

(* An unlocked calendar that has the version of the file shows the file:   *)
(* onParsingComplete and onAfterPut take over the version together with    *)
(* the items, and a failed upload (onStopRequest, doWriteICS) is followed  *)
(* by a forced refresh. That refresh must not fail: without the excluded   *)
(* failures it is queued or under way, and the calendar locked, as long as *)
(* the refused changes are shown. A calendar that has no version, because  *)
(* the server does not name it, shows the file if nobody else changes it.  *)
THEOREM RestShowsFileAlways == Spec => []RestShowsFile
<1>1. ASSUME Inv, ShowInv PROVE RestShowsFile
  <2>1. SUFFICES ASSUME Without({"race", "notUtf8", "notIcs", "gone"}),
                        \/ Without({"getFails", "neverLoaded"})
                        \/ Without({"putFails", "openFails"}),
                        ~cal.locked, Current(cal, file)
                 PROVE  cal.mem = file.items
    BY DEF RestShowsFile, Current, Alone
  <2>2. StaleIsReloaded /\ Without({"gone"})
    BY <2>1, Excluded DEF StaleIsReloaded, Quiet, UploadMayFail
  <2>3. cal.pending = Nothing /\ cal.queue = <<>>
    BY <1>1, <2>1, <2>2 DEF Inv, Orderly
  <2>4. /\ cal.pending["get"] = 0 /\ cal.pending["backup"] = 0
        /\ cal.pending["put"] = 0
    BY <2>3, Callbacks DEF Nothing
  <2>5. ~Reloads(cal)
    BY <2>3, <2>4 DEF Reloads, Forced
  <2>. QED BY <1>1, <2>1, <2>2, <2>4, <2>5 DEF ShowInv, Shows
<1>. QED BY <1>1, InvAlways, ShowAlways, PTL

(* doWriteICS uploads all of the memory calendar, and only items whose     *)
(* changes wait in mModificationActions differ from the file it replaces:  *)
(* the upload is conditional on the version that was read or written last. *)
(* The calendar has that version as long as the server names it with each  *)
(* download and each upload; the PROPFIND of onAfterPut does not find it,  *)
(* and without it nobody else may change the file.                         *)
THEOREM UploadChangesWhatWasAskedAlways == Spec => []UploadChangesWhatWasAsked
<1>1. ASSUME ShowInv PROVE UploadChangesWhatWasAsked
  <2>1. ASSUME Without({"others"}) \/ Without({"noEtag", "unversioned"}),
               Without({"neverLoaded", "race", "notUtf8", "notIcs", "gone"}),
               \/ Without({"pipelined", "getFails"})
               \/ Without({"putFails", "openFails"})
        PROVE  NothingUnasked
    BY <2>1 DEF NothingUnasked, Quiet, UploadMayFail, Alone, Without
  <2>. QED BY <1>1, <2>1 DEF ShowInv, UploadChangesWhatWasAsked
<1>. QED BY <1>1, ShowAlways, PTL
=============================================================================
