-------------------------- MODULE CopyServiceProofs --------------------------
(***************************************************************************)
(* Proofs about CopyService that hold for every set of requests, folders   *)
(* and files, every number of sources and every Env.                       *)
(***************************************************************************)
EXTENDS CopyService, SequenceTheorems, TLAPS

-----------------------------------------------------------------------------
(* Sequences.                                                              *)

(* Removing an element that occurs once closes the gap it leaves.          *)
LEMMA RemoveFirstProperties ==
  ASSUME NEW S, NEW s \in Seq(S), NEW k \in 1..Len(s),
         \A i, j \in 1..Len(s) : s[i] = s[j] => i = j
  PROVE  /\ RemoveFirst(s, s[k]) \in Seq(S)
         /\ Len(RemoveFirst(s, s[k])) = Len(s) - 1
         /\ \A i \in 1..(Len(s) - 1) :
              RemoveFirst(s, s[k])[i] = IF i < k THEN s[i] ELSE s[i + 1]
<1> DEFINE I == {i \in 1..Len(s) : s[i] = s[k]}
           a == SubSeq(s, 1, k - 1)
           b == SubSeq(s, k + 1, Len(s))
<1>1. I = {k}
  OBVIOUS
<1>2. SelectInSeq(s, LAMBDA v : v = s[k]) = k
  BY <1>1 DEF SelectInSeq, Min
<1>3. RemoveFirst(s, s[k]) = a \o b
  BY <1>2 DEF RemoveFirst, RemoveAt
<1>4. \A i \in 1..Len(s) : s[i] \in S
  BY ElementOfSeq
<1>5. /\ a \in Seq(S)
      /\ Len(a) = k - 1
      /\ \A i \in 1..(k - 1) : a[i] = s[i]
  BY <1>4, SubSeqProperties, 1 \in Int, k - 1 \in Int
<1>6. /\ b \in Seq(S)
      /\ Len(b) = Len(s) - k
      /\ \A i \in 1..(Len(s) - k) : b[i] = s[k + i]
  BY <1>4, SubSeqProperties, k + 1 \in Int, Len(s) \in Int
<1> HIDE DEF a, b
<1>7. /\ a \o b \in Seq(S)
      /\ Len(a \o b) = Len(a) + Len(b)
      /\ \A i \in 1..(Len(a) + Len(b)) :
           (a \o b)[i] = IF i <= Len(a) THEN a[i] ELSE b[i - Len(a)]
  <2> a \in Seq(S) /\ b \in Seq(S)
    BY <1>5, <1>6
  <2> QED
    BY ConcatProperties
<1>8. ASSUME NEW i \in 1..(Len(s) - 1)
      PROVE  (a \o b)[i] = IF i < k THEN s[i] ELSE s[i + 1]
  <2>1. CASE i < k
    BY <2>1, <1>5, <1>6, <1>7
  <2>2. CASE ~(i < k)
    <3>1. (a \o b)[i] = b[i - (k - 1)]
      BY <2>2, <1>5, <1>6, <1>7
    <3>2. i - (k - 1) \in 1..(Len(s) - k) /\ k + (i - (k - 1)) = i + 1
      BY <2>2
    <3> QED
      BY <3>1, <3>2, <2>2, <1>6
  <2> QED
    BY <2>1, <2>2
<1> QED
  BY <1>3, <1>5, <1>6, <1>7, <1>8

(* t has every other element of s, once and in order.                      *)
IsWithout(t, s, k) ==
  /\ Len(t) = Len(s) - 1
  /\ \A i \in 1..(Len(s) - 1) : t[i] = IF i < k THEN s[i] ELSE s[i + 1]
  /\ \A i, j \in 1..(Len(s) - 1) : t[i] = t[j] => i = j
  /\ \A i \in 1..(Len(s) - 1) : t[i] # s[k]
  /\ \A i \in 1..(Len(s) - 1) : \E j \in 1..Len(s) : t[i] = s[j]
  /\ \A j \in 1..Len(s) : j # k => \E i \in 1..(Len(s) - 1) : t[i] = s[j]

LEMMA RemoveFirstElements ==
  ASSUME NEW S, NEW s \in Seq(S), NEW k \in 1..Len(s),
         \A i, j \in 1..Len(s) : s[i] = s[j] => i = j
  PROVE  RemoveFirst(s, s[k]) \in Seq(S) /\ IsWithout(RemoveFirst(s, s[k]), s, k)
<1> DEFINE t == RemoveFirst(s, s[k])
           old(n) == IF n < k THEN n ELSE n + 1
           new(n) == IF n < k THEN n ELSE n - 1
<1>1. /\ t \in Seq(S) /\ Len(t) = Len(s) - 1
      /\ \A i \in 1..(Len(s) - 1) : t[i] = IF i < k THEN s[i] ELSE s[i + 1]
  BY RemoveFirstProperties
<1>2. Len(s) \in Nat /\ k \in Nat
  OBVIOUS
<1> HIDE DEF t
<1>3. \A n \in 1..(Len(s) - 1) : old(n) \in 1..Len(s) /\ old(n) # k
  BY <1>2
<1>4. \A n \in 1..(Len(s) - 1) : t[n] = s[old(n)]
  BY <1>1
<1>5. \A i, j \in 1..(Len(s) - 1) : old(i) = old(j) => i = j
  BY <1>2
<1>6. \A n \in 1..Len(s) : n # k =>
        new(n) \in 1..(Len(s) - 1) /\ old(new(n)) = n
  BY <1>2
<1> HIDE DEF old, new
<1> SUFFICES t \in Seq(S) /\ IsWithout(t, s, k)
  BY DEF t
<1>7. \A i, j \in 1..(Len(s) - 1) : t[i] = t[j] => i = j
  BY <1>3, <1>4, <1>5
<1>8. \A i \in 1..(Len(s) - 1) : t[i] # s[k]
  BY <1>3, <1>4
<1>9. \A i \in 1..(Len(s) - 1) : \E j \in 1..Len(s) : t[i] = s[j]
  BY <1>3, <1>4
<1>10. \A j \in 1..Len(s) : j # k => \E i \in 1..(Len(s) - 1) : t[i] = s[j]
  BY <1>4, <1>6
<1> QED
  BY <1>1, <1>7, <1>8, <1>9, <1>10 DEF IsWithout

(* Pushing and popping activations.                                        *)
LEMMA PushProperties ==
  ASSUME NEW S, NEW stack \in Seq(S), NEW frame \in S
  PROVE  /\ Push(stack, frame) \in Seq(S)
         /\ Len(Push(stack, frame)) = Len(stack) + 1
         /\ Push(stack, frame)[1] = frame
         /\ \A i \in 2..(Len(stack) + 1) : Push(stack, frame)[i] = stack[i - 1]
  BY DEF Push

(* What is left of the stack when its top returns.                         *)
LEMMA PopProperties ==
  ASSUME NEW S, NEW stack \in Seq(S), stack # <<>>
  PROVE  /\ Head(stack) \in S
         /\ Head(stack) = stack[1]
         /\ 1 \in 1..Len(stack)
         /\ Tail(stack) \in Seq(S)
         /\ Len(Tail(stack)) = Len(stack) - 1
         /\ \A i \in 1..(Len(stack) - 1) : Tail(stack)[i] = stack[i + 1]
  BY HeadTailProperties

-----------------------------------------------------------------------------
(* The inductive invariant.                                                *)

(* A request's record fits its type.                                       *)
WellFormed(q) ==
  /\ q.type = "messages" => q.src \in Folder /\ q.sources \in Seq(Folder)
  /\ q.type = "folders" => q.src \in Folder /\ q.dstName \in Names

(* Operation <<r, s>> is one DoNextCopy can have started.                  *)
IsOperation(r, s) ==
  /\ req[r] # NotCreated
  /\ req[r].type = "messages" => s \in DOMAIN req[r].sources

(* A call to a folder that has not notified is the newest activation, and
   its request is still on the queue.                                      *)
CallsOK ==
  \A i \in DOMAIN callStack :
    callStack[i].op = "Copying" =>
      /\ IsOperation(callStack[i].r, callStack[i].s)
      /\ ~callStack[i].notified => i = 1 /\ Listed(callStack[i].r)

OperationsOK == \A op \in inFlight : IsOperation(op[1], op[2])

(* Only a request CopyMessages has called back on the spot has no source.  *)
RequestsOK ==
  \A r \in Request : req[r] # NotCreated =>
    /\ WellFormed(req[r])
    /\ req[r].type = "messages" /\ stops[r] = 0 => req[r].sources # <<>>

\* A request that does not exist yet has no history.
NewOK == \A r \in Request : req[r] = NotCreated => stops[r] = 0

Inv == /\ TypeOK
       /\ NewOK
       /\ StoppedOnce
       /\ BatchesPairUp
       /\ RequestsOK
       /\ OperationsOK
       /\ CallsOK

LEMMA InitInv == Init => Inv
<1> SUFFICES ASSUME Init PROVE Inv
  OBVIOUS
<1>1. TypeOK
  BY EmptySeq DEF Init, TypeOK
<1>2. \A r \in Request : ~Listed(r)
  BY DEF Init, Listed
<1>3. StoppedOnce
  BY <1>2 DEF Init, StoppedOnce
<1>4. BatchesPairUp
  BY <1>2 DEF Init, BatchesPairUp
<1>5. NewOK /\ RequestsOK /\ OperationsOK /\ CallsOK
  BY DEF Init, NewOK, RequestsOK, OperationsOK, CallsOK
<1> QED
  BY <1>1, <1>3, <1>4, <1>5 DEF Inv

-----------------------------------------------------------------------------
(* Activations.                                                            *)

(* No call to a folder is waiting for its first notification.              *)
Settled(stack) ==
  \A i \in 1..Len(stack) : stack[i].op = "Copying" =>
    stack[i].notified /\ IsOperation(stack[i].r, stack[i].s)

LEMMA SettledPush ==
  ASSUME NEW stack \in Seq(Frame), Settled(stack), NEW frame \in Frame,
         frame.op = "Copying" => frame.notified /\ IsOperation(frame.r, frame.s)
  PROVE  Push(stack, frame) \in Seq(Frame) /\ Settled(Push(stack, frame))
<1>1. /\ Push(stack, frame) \in Seq(Frame)
      /\ Len(Push(stack, frame)) = Len(stack) + 1
      /\ Push(stack, frame)[1] = frame
      /\ \A i \in 2..(Len(stack) + 1) : Push(stack, frame)[i] = stack[i - 1]
  <2>1. PICK F : F = Frame
    OBVIOUS
  <2>2. stack \in Seq(F) /\ frame \in F
    BY <2>1
  <2>3. /\ Push(stack, frame) \in Seq(F)
        /\ Len(Push(stack, frame)) = Len(stack) + 1
        /\ Push(stack, frame)[1] = frame
        /\ \A i \in 2..(Len(stack) + 1) : Push(stack, frame)[i] = stack[i - 1]
    BY <2>2, PushProperties
  <2> QED
    BY <2>1, <2>3
<1>2. Len(stack) \in Nat
  OBVIOUS
<1> SUFFICES ASSUME NEW i \in 1..(Len(stack) + 1),
                    Push(stack, frame)[i].op = "Copying"
             PROVE  /\ Push(stack, frame)[i].notified
                    /\ IsOperation(Push(stack, frame)[i].r,
                                   Push(stack, frame)[i].s)
  BY <1>1 DEF Settled
<1>3. CASE i = 1
  BY <1>1, <1>3
<1>4. CASE i # 1
  <2>1. i \in 2..(Len(stack) + 1) /\ i - 1 \in 1..Len(stack)
    BY <1>2, <1>4
  <2>2. Push(stack, frame)[i] = stack[i - 1]
    BY <1>1, <2>1
  <2> QED
    BY <2>1, <2>2 DEF Settled
<1> QED
  BY <1>3, <1>4

LEMMA SettledEmpty == <<>> \in Seq(Frame) /\ Settled(<<>>)
  BY EmptySeq DEF Settled

(* Under the invariant only the newest activation can be a call that has
   not notified.                                                           *)
LEMMA SettledBelow ==
  ASSUME Inv, callStack # <<>>
  PROVE  /\ Top \in Frame
         /\ Tail(callStack) \in Seq(Frame)
         /\ Settled(Tail(callStack))
         /\ Top.op # "Copying" => Settled(callStack)
         /\ Top.op = "Copying" =>
              /\ IsOperation(Top.r, Top.s)
              /\ ~Top.notified => Listed(Top.r)
<1>1. callStack \in Seq(Frame)
  BY DEF Inv, TypeOK
<1>2. /\ Top \in Frame
      /\ Top = callStack[1]
      /\ 1 \in 1..Len(callStack)
      /\ Tail(callStack) \in Seq(Frame)
      /\ Len(Tail(callStack)) = Len(callStack) - 1
      /\ \A i \in 1..(Len(callStack) - 1) : Tail(callStack)[i] = callStack[i + 1]
  <2> DEFINE stack == callStack
  <2>1. stack \in Seq(Frame) /\ stack # <<>>
    BY <1>1
  <2> HIDE DEF stack
  <2>2. /\ Head(stack) \in Frame
        /\ Head(stack) = stack[1]
        /\ 1 \in 1..Len(stack)
        /\ Tail(stack) \in Seq(Frame)
        /\ Len(Tail(stack)) = Len(stack) - 1
        /\ \A i \in 1..(Len(stack) - 1) : Tail(stack)[i] = stack[i + 1]
    BY <2>1, PopProperties
  <2> QED
    BY <2>2 DEF Top, stack
<1>3. \A i \in 1..Len(callStack) : callStack[i].op = "Copying" =>
        /\ IsOperation(callStack[i].r, callStack[i].s)
        /\ ~callStack[i].notified => i = 1 /\ Listed(callStack[i].r)
  BY <1>1 DEF Inv, CallsOK
<1>4. Settled(Tail(callStack))
  <2> SUFFICES ASSUME NEW i \in 1..(Len(callStack) - 1),
                      callStack[i + 1].op = "Copying"
               PROVE  /\ callStack[i + 1].notified
                      /\ IsOperation(callStack[i + 1].r, callStack[i + 1].s)
    BY <1>2 DEF Settled
  <2>1. i + 1 \in 1..Len(callStack) /\ i + 1 # 1
    BY <1>1, LenProperties
  <2> QED
    BY <1>3, <2>1
<1>5. Top.op # "Copying" => Settled(callStack)
  BY <1>2, <1>3 DEF Settled
<1> QED
  BY <1>2, <1>3, <1>4, <1>5

(* What the requests' records keep is enough for the operations that are
   under way; the rest of the invariant is up to the step.                 *)
LEMMA InvFromParts ==
  ASSUME Inv, TypeOK', NewOK', StoppedOnce', BatchesPairUp', RequestsOK',
         \A q \in Request : req[q] # NotCreated =>
           /\ req'[q] # NotCreated
           /\ req'[q].type = req[q].type
           /\ req'[q].sources = req[q].sources,
         \A op \in inFlight' : IsOperation(op[1], op[2]),
         Settled(callStack')
  PROVE  Inv'
<1>1. \A q \in Request : \A n : IsOperation(q, n) => IsOperation(q, n)'
  BY DEF IsOperation
<1>2. OperationsOK'
  <2> SUFFICES ASSUME NEW op \in inFlight' PROVE IsOperation(op[1], op[2])'
    BY DEF OperationsOK
  <2>1. op[1] \in Request
    BY DEF TypeOK
  <2> QED
    BY <1>1, <2>1
<1>3. CallsOK'
  <2>1. callStack' \in Seq(Frame)
    BY DEF TypeOK
  <2> SUFFICES ASSUME NEW i \in DOMAIN callStack', callStack'[i].op = "Copying"
               PROVE  /\ IsOperation(callStack[i].r, callStack[i].s)'
                      /\ callStack'[i].notified
    BY DEF CallsOK
  <2>2. i \in 1..Len(callStack') /\ callStack'[i] \in Frame
    BY <2>1, LenProperties, ElementOfSeq
  <2>3. callStack'[i].r \in Request
    BY <2>2 DEF Frame
  <2> QED
    BY <1>1, <2>2, <2>3 DEF Settled
<1> QED
  BY <1>2, <1>3 DEF Inv

-----------------------------------------------------------------------------
(* Submitting a request.                                                   *)

LEMMA SubmitInv ==
  ASSUME Inv, NEW r \in Request,
         NEW type \in {"messages", "folders", "file"},
         NEW src \in Folder \cup File, NEW dst \in Folder,
         NEW sources \in Seq(Folder \cup {NoFolder}),
         type = "messages" => /\ src \in Folder /\ sources \in Seq(Folder)
                              /\ sources # <<>>,
         type = "folders" => src \in Folder,
         Submit(r, type, src, dst, sources),
         undoBatches' = IF Len(sources) > 1 THEN undoBatches \cup {r}
                                            ELSE undoBatches
  PROVE  Inv'
<1> DEFINE new == NewRequest(type, src, dst, sources)
<1>1. /\ new \in CopyRequest
      /\ WellFormed(new)
      /\ new # NotCreated
      /\ new.sources = sources
  <2>1. type = "folders" => NameOf[src] \in Names
    BY CopyAssumption
  <2>2. DOMAIN sources \in SUBSET Nat
    OBVIOUS
  <2> QED
    BY <2>1, <2>2 DEF NewRequest, CopyRequest, WellFormed, NotCreated
<1> HIDE DEF new
<1>2. /\ req[r] = NotCreated
      /\ req' = [req EXCEPT ![r] = new]
      /\ m_copyRequests' = Append(m_copyRequests, r)
      /\ \/ callStack' = Push(callStack, [op |-> "DoNextCopy"])
         \/ callStack' = callStack
      /\ UNCHANGED <<starts, stops, told, inFlight, copied, alive>>
  BY DEF Submit, IsNext, DoCopy, new
<1>3. /\ req \in [Request -> CopyRequest \cup {NotCreated}]
      /\ m_copyRequests \in Seq(Request)
      /\ Len(m_copyRequests) \in Nat
      /\ DOMAIN m_copyRequests = 1..Len(m_copyRequests)
  BY LenProperties DEF Inv, TypeOK
<1>4. ~Listed(r) /\ stops[r] = 0
  BY <1>2 DEF Inv, StoppedOnce, NewOK
<1>5. /\ m_copyRequests' \in Seq(Request)
      /\ Len(m_copyRequests') = Len(m_copyRequests) + 1
      /\ \A i \in 1..Len(m_copyRequests) :
           m_copyRequests'[i] = m_copyRequests[i]
      /\ m_copyRequests'[Len(m_copyRequests) + 1] = r
      /\ DOMAIN m_copyRequests' = 1..(Len(m_copyRequests) + 1)
  BY <1>2, <1>3, AppendProperties
<1>6. \A q \in Request : Listed(q)' <=> Listed(q) \/ q = r
  <2> SUFFICES ASSUME NEW q \in Request PROVE Listed(q)' <=> Listed(q) \/ q = r
    OBVIOUS
  <2>1. Listed(q)' => Listed(q) \/ q = r
    BY <1>3, <1>5 DEF Listed
  <2>2. Listed(q) => Listed(q)'
    BY <1>3, <1>5 DEF Listed
  <2>3. Listed(r)'
    BY <1>3, <1>5 DEF Listed
  <2> QED
    BY <2>1, <2>2, <2>3
<1>7. callStack' \in Seq(Frame) /\ Settled(callStack')
  <2>1. callStack \in Seq(Frame) /\ Settled(callStack)
    <3>1. CASE callStack = <<>>
      BY <3>1, SettledEmpty
    <3>2. CASE callStack # <<>>
      BY <3>2, SettledBelow DEF Inv, TypeOK, Submit, MayCall, Running
    <3> QED
      BY <3>1, <3>2
  <2> DEFINE frame == [op |-> "DoNextCopy"]
  <2>2. frame \in Frame /\ frame.op = "DoNextCopy"
    BY DEF Frame
  <2> HIDE DEF frame
  <2>3. Push(callStack, frame) \in Seq(Frame) /\ Settled(Push(callStack, frame))
    BY <2>1, <2>2, SettledPush
  <2> QED
    BY <1>2, <2>1, <2>3 DEF frame
<1>8. TypeOK'
  <2>1. undoBatches' \subseteq Request
    BY DEF Inv, TypeOK
  <2>2. req' \in [Request -> CopyRequest \cup {NotCreated}]
    BY <1>1, <1>2, <1>3
  <2> QED
    BY <1>2, <1>5, <1>7, <2>1, <2>2 DEF Inv, TypeOK
<1>9. StoppedOnce'
  <2>1. ASSUME NEW i \in DOMAIN m_copyRequests', NEW j \in DOMAIN m_copyRequests',
               m_copyRequests'[i] = m_copyRequests'[j]
        PROVE  i = j
    BY <2>1, <1>3, <1>4, <1>5 DEF Listed, Inv, StoppedOnce
  <2>2. ASSUME NEW q \in Request
        PROVE  /\ Listed(q)' <=> req'[q] # NotCreated /\ stops'[q] = 0
               /\ stops'[q] <= 1
    BY <1>1, <1>2, <1>3, <1>4, <1>6 DEF Inv, StoppedOnce
  <2> QED
    BY <2>1, <2>2 DEF StoppedOnce
<1>10. BatchesPairUp'
  BY <1>1, <1>2, <1>3, <1>4, <1>6 DEF Inv, BatchesPairUp
<1>11. NewOK'
  BY <1>1, <1>2, <1>3 DEF Inv, NewOK
<1>12. RequestsOK'
  <2>1. req'[r] = new /\ new.type = type
    BY <1>2, <1>3 DEF new, NewRequest
  <2>2. type = "messages" => new.sources # <<>>
    BY <1>1
  <2> QED
    BY <2>1, <2>2, <1>1, <1>2, <1>3 DEF Inv, RequestsOK
<1>13. \A q \in Request : req[q] # NotCreated => req'[q] = req[q]
  BY <1>2, <1>3
<1>14. \A op \in inFlight' : IsOperation(op[1], op[2])
  BY <1>2 DEF Inv, OperationsOK
<1> QED
  BY <1>7, <1>8, <1>9, <1>10, <1>11, <1>12, <1>13, <1>14, InvFromParts

-----------------------------------------------------------------------------
(* Steps that change the queue by clearing a request, or leave it alone.   *)

LEMMA ClearRequestInv ==
  ASSUME Inv, NEW r \in Request, Listed(r), NEW ok \in BOOLEAN,
         NEW stack \in Seq(Frame), Settled(stack),
         ClearRequest(r, ok, stack),
         UNCHANGED <<req, starts, told, inFlight, copied, alive>>
  PROVE  Inv'
<1>1. /\ m_copyRequests \in Seq(Request)
      /\ Len(m_copyRequests) \in Nat
      /\ DOMAIN m_copyRequests = 1..Len(m_copyRequests)
      /\ stops \in [Request -> Nat]
      /\ req \in [Request -> CopyRequest \cup {NotCreated}]
  BY LenProperties DEF Inv, TypeOK
<1>20. m_copyRequests \in Seq(Request)
  BY <1>1
<1>21. \A i, j \in 1..Len(m_copyRequests) :
         m_copyRequests[i] = m_copyRequests[j] => i = j
  BY <1>1 DEF Inv, StoppedOnce
<1>2. \A q \in Request : /\ Listed(q) <=> req[q] # NotCreated /\ stops[q] = 0
                         /\ stops[q] <= 1
  BY DEF Inv, StoppedOnce
<1>3. PICK k \in 1..Len(m_copyRequests) : m_copyRequests[k] = r
  BY <1>1 DEF Listed
<1>4. /\ m_copyRequests' \in Seq(Request)
      /\ \A i, j \in DOMAIN m_copyRequests' :
           m_copyRequests'[i] = m_copyRequests'[j] => i = j
      /\ \A i \in DOMAIN m_copyRequests' : m_copyRequests'[i] # r
      /\ \A i \in DOMAIN m_copyRequests' :
           \E j \in 1..Len(m_copyRequests) :
             m_copyRequests'[i] = m_copyRequests[j]
      /\ \A j \in 1..Len(m_copyRequests) : j # k =>
           \E i \in DOMAIN m_copyRequests' :
             m_copyRequests'[i] = m_copyRequests[j]
  <2> DEFINE old == m_copyRequests
             left == RemoveFirst(old, old[k])
  <2>1. /\ old \in Seq(Request)
        /\ \A i, j \in 1..Len(old) : old[i] = old[j] => i = j
        /\ k \in 1..Len(old)
    BY <1>20, <1>21
  <2>2. old[k] = r /\ m_copyRequests' = left
    BY <1>3 DEF ClearRequest
  <2> SUFFICES /\ left \in Seq(Request)
               /\ \A i, j \in DOMAIN left : left[i] = left[j] => i = j
               /\ \A i \in DOMAIN left : left[i] # old[k]
               /\ \A i \in DOMAIN left : \E j \in 1..Len(old) : left[i] = old[j]
               /\ \A j \in 1..Len(old) : j # k =>
                    \E i \in DOMAIN left : left[i] = old[j]
    BY <2>2
  <2> HIDE DEF old
  <2>3. left \in Seq(Request) /\ Len(left) = Len(old) - 1
    BY <2>1, RemoveFirstProperties
  <2>4. DOMAIN left = 1..(Len(old) - 1)
    BY <2>3, LenProperties
  <2>5. /\ \A i, j \in 1..(Len(old) - 1) : left[i] = left[j] => i = j
        /\ \A i \in 1..(Len(old) - 1) : left[i] # old[k]
        /\ \A i \in 1..(Len(old) - 1) : \E j \in 1..Len(old) : left[i] = old[j]
        /\ \A j \in 1..Len(old) : j # k =>
             \E i \in 1..(Len(old) - 1) : left[i] = old[j]
    <3>1. IsWithout(left, old, k)
      BY <2>1, RemoveFirstElements
    <3> QED
      BY <3>1 DEF IsWithout
  <2> QED
    BY <2>3, <2>4, <2>5
<1>5. \A q \in Request : Listed(q)' <=> Listed(q) /\ q # r
  <2> SUFFICES ASSUME NEW q \in Request
               PROVE  Listed(q)' <=> Listed(q) /\ q # r
    OBVIOUS
  <2>1. ASSUME Listed(q)' PROVE Listed(q) /\ q # r
    <3>1. PICK i \in DOMAIN m_copyRequests' : m_copyRequests'[i] = q
      BY <2>1 DEF Listed
    <3>2. q # r
      BY <3>1, <1>4
    <3>3. \E j \in DOMAIN m_copyRequests : m_copyRequests[j] = q
      BY <3>1, <1>1, <1>4
    <3> QED
      BY <3>2, <3>3 DEF Listed
  <2>2. ASSUME Listed(q), q # r PROVE Listed(q)'
    <3>1. PICK j \in 1..Len(m_copyRequests) : m_copyRequests[j] = q /\ j # k
      BY <2>2, <1>1, <1>3 DEF Listed
    <3>2. \E i \in DOMAIN m_copyRequests' : m_copyRequests'[i] = q
      BY <3>1, <1>4
    <3> QED
      BY <3>2 DEF Listed
  <2> QED
    BY <2>1, <2>2
<1>6. callStack' \in Seq(Frame) /\ Settled(callStack')
  <2> DEFINE frame == [op |-> "OnStopCopy", r |-> r, ok |-> ok]
  <2>1. frame \in Frame /\ frame.op # "Copying"
    BY DEF Frame
  <2>2. callStack' = Push(stack, frame)
    BY DEF ClearRequest
  <2> HIDE DEF frame
  <2> QED
    BY <2>1, <2>2, SettledPush
<1>7. /\ stops' = [stops EXCEPT ![r] = @ + 1]
      /\ undoBatches' = undoBatches \ {r}
  BY DEF ClearRequest
<1>8. TypeOK'
  <2>1. stops' \in [Request -> Nat]
    BY <1>1, <1>7
  <2> QED
    BY <1>4, <1>6, <1>7, <2>1 DEF Inv, TypeOK
<1>9. StoppedOnce'
  <2>1. ASSUME NEW i \in DOMAIN m_copyRequests', NEW j \in DOMAIN m_copyRequests',
               m_copyRequests'[i] = m_copyRequests'[j]
        PROVE  i = j
    BY <2>1, <1>4
  <2>2. ASSUME NEW q \in Request
        PROVE  /\ Listed(q)' <=> req'[q] # NotCreated /\ stops'[q] = 0
               /\ stops'[q] <= 1
    <3>1. Listed(q)' <=> Listed(q) /\ q # r
      BY <1>5
    <3>2. CASE q = r
      BY <3>1, <3>2, <1>1, <1>2, <1>7
    <3>3. CASE q # r
      <4>1. stops'[q] = stops[q]
        BY <3>3, <1>1, <1>7
      <4> QED
        BY <3>1, <3>3, <4>1, <1>2
    <3> QED
      BY <3>2, <3>3
  <2> QED
    BY <2>1, <2>2 DEF StoppedOnce
<1>10. BatchesPairUp'
  BY <1>1, <1>5, <1>7 DEF Inv, BatchesPairUp
<1>11. NewOK'
  BY <1>1, <1>2, <1>7 DEF Inv, NewOK
<1>12. RequestsOK'
  <2>1. \A q \in Request : stops'[q] = 0 => stops[q] = 0
    BY <1>1, <1>7
  <2> QED
    BY <2>1 DEF Inv, RequestsOK
<1>13. \A op \in inFlight' : IsOperation(op[1], op[2])
  BY DEF Inv, OperationsOK
<1> QED
  BY <1>6, <1>8, <1>9, <1>10, <1>11, <1>12, <1>13, InvFromParts

(* A step that leaves the queue and the records alone only has to leave
   settled activations and genuine operations behind.                      *)
LEMMA QueueUnchangedInv ==
  ASSUME Inv,
         UNCHANGED <<m_copyRequests, req, starts, stops, undoBatches, alive>>,
         told' \in [Request -> Nat],
         inFlight' \subseteq Request \X Nat,
         copied' \subseteq Request \X Nat,
         \A op \in inFlight' : IsOperation(op[1], op[2]),
         callStack' \in Seq(Frame), Settled(callStack')
  PROVE  Inv'
<1>1. TypeOK'
  BY DEF Inv, TypeOK
<1>2. NewOK' /\ RequestsOK'
  BY DEF Inv, NewOK, RequestsOK
<1>3. StoppedOnce'
  BY DEF Inv, StoppedOnce, Listed
<1>4. BatchesPairUp'
  BY DEF Inv, BatchesPairUp, Listed
<1> QED
  BY <1>1, <1>2, <1>3, <1>4, InvFromParts

-----------------------------------------------------------------------------
(* One lemma per group of actions.                                         *)

(* The activation below a listener, or an empty stack, has notified.       *)
LEMMA MayCallSettled ==
  ASSUME Inv, callStack = <<>> \/ Top.op = "OnStopCopy"
  PROVE  callStack \in Seq(Frame) /\ Settled(callStack)
<1>1. CASE callStack = <<>>
  BY <1>1, SettledEmpty
<1>2. CASE callStack # <<>>
  <2>1. Top.op # "Copying"
    BY <1>2
  <2> QED
    BY <1>2, <2>1, SettledBelow DEF Inv, TypeOK
<1> QED
  BY <1>1, <1>2

LEMMA CallInv == ASSUME Inv, Call PROVE Inv'
<1> PICK r \in Request : \/ CopyMessages(r)
                        \/ CopyNoMessages(r)
                        \/ CopyFolders(r)
                        \/ CopyFileMessage(r)
  BY DEF Call
<1>1. CASE CopyMessages(r)
  <2>1. PICK src \in Folder, dst \in Folder :
          \E sources \in Groupings(src) :
            /\ Submit(r, "messages", src, dst, sources)
            /\ undoBatches' = IF Len(sources) > 1 THEN undoBatches \cup {r}
                                                  ELSE undoBatches
    BY <1>1 DEF CopyMessages
  <2>2. PICK sources \in Groupings(src) :
            /\ Submit(r, "messages", src, dst, sources)
            /\ undoBatches' = IF Len(sources) > 1 THEN undoBatches \cup {r}
                                                  ELSE undoBatches
    BY <2>1
  <2>3. sources \in Seq(Folder) /\ sources \in Seq(Folder \cup {NoFolder})
    <3>1. PICK n \in 1..MaxSources : sources \in [1..n -> Folder]
      <4>1. sources \in UNION {[1..n -> Folder] : n \in 1..MaxSources}
        BY DEF Groupings
      <4> QED
        BY <4>1
    <3>2. MaxSources \in Nat
      BY CopyAssumption
    <3>3. n \in Nat
      BY <3>2
    <3>4. sources \in [1..n -> Folder \cup {NoFolder}]
      BY <3>1
    <3>5. \A S : \A f \in [1..n -> S] : f \in Seq(S)
      BY <3>3, SeqDef
    <3> QED
      BY <3>1, <3>4, <3>5
  <2>4. sources # <<>>
    BY <2>2 DEF Groupings
  <2> QED
    BY <2>2, <2>3, <2>4, SubmitInv
<1>2. CASE CopyFolders(r)
  <2>1. PICK src \in Folder, dst \in Folder :
          Submit(r, "folders", src, dst, <<src>>) /\ UNCHANGED undoBatches
    BY <1>2 DEF CopyFolders
  <2> DEFINE sources == <<src>>
  <2>2. sources \in Seq(Folder \cup {NoFolder}) /\ Len(sources) = 1
    OBVIOUS
  <2>3. /\ Submit(r, "folders", src, dst, sources)
        /\ undoBatches' = undoBatches
    BY <2>1
  <2> HIDE DEF sources
  <2>4. undoBatches' = IF Len(sources) > 1 THEN undoBatches \cup {r}
                                            ELSE undoBatches
    BY <2>2, <2>3
  <2>5. Submit(r, "folders", src, dst, sources)
    BY <2>3
  <2> QED
    BY <2>2, <2>4, <2>5, SubmitInv
<1>3. CASE CopyFileMessage(r)
  <2>1. PICK file \in File, dst \in Folder, sources \in {<<>>, <<NoFolder>>} :
          Submit(r, "file", file, dst, sources) /\ UNCHANGED undoBatches
    BY <1>3 DEF CopyFileMessage
  <2>2. sources \in Seq(Folder \cup {NoFolder}) /\ ~(Len(sources) > 1)
    <3>1. CASE sources = <<>>
      BY <3>1, EmptySeq
    <3>2. CASE sources = <<NoFolder>>
      BY <3>2
    <3> QED
      BY <3>1, <3>2
  <2>3. undoBatches' = undoBatches
    BY <2>1
  <2> QED
    BY <2>1, <2>2, <2>3, SubmitInv
<1>4. CASE CopyNoMessages(r)
  <2>1. PICK src \in Folder, dst \in Folder :
          req' = [req EXCEPT ![r] = NewRequest("messages", src, dst, <<>>)]
    BY <1>4 DEF CopyNoMessages
  <2> DEFINE new == NewRequest("messages", src, dst, <<>>)
             frame == [op |-> "OnStopCopy", r |-> r, ok |-> TRUE]
  <2>2. /\ new \in CopyRequest
        /\ WellFormed(new)
        /\ new # NotCreated
        /\ new.sources = <<>>
    BY DEF NewRequest, CopyRequest, WellFormed, NotCreated
  <2>3. frame \in Frame /\ frame.op # "Copying"
    BY DEF Frame
  <2>4. /\ req[r] = NotCreated
        /\ req' = [req EXCEPT ![r] = new]
        /\ callStack' = Push(callStack, frame)
        /\ stops' = [stops EXCEPT ![r] = @ + 1]
        /\ starts' = [starts EXCEPT ![r] = @ + 1]
        /\ UNCHANGED <<m_copyRequests, told, inFlight, copied, undoBatches,
                     alive>>
    BY <1>4, <2>1 DEF CopyNoMessages, IsNext
  <2> HIDE DEF new, frame
  <2>5. callStack \in Seq(Frame) /\ Settled(callStack)
    BY <1>4, MayCallSettled DEF CopyNoMessages, MayCall, Running
  <2>6. callStack' \in Seq(Frame) /\ Settled(callStack')
    BY <2>3, <2>4, <2>5, SettledPush
  <2>7. req \in [Request -> CopyRequest \cup {NotCreated}]
        /\ stops \in [Request -> Nat] /\ starts \in [Request -> Nat]
    BY DEF Inv, TypeOK
  <2>8. stops[r] = 0 /\ ~Listed(r)
    BY <2>4 DEF Inv, NewOK, StoppedOnce
  <2>9. \A q \in Request : Listed(q)' <=> Listed(q)
    BY <2>4 DEF Listed
  <2>10. TypeOK'
    <3>1. req' \in [Request -> CopyRequest \cup {NotCreated}]
      BY <2>2, <2>4, <2>7
    <3>2. stops' \in [Request -> Nat] /\ starts' \in [Request -> Nat]
      BY <2>4, <2>7
    <3> QED
      BY <2>4, <2>6, <3>1, <3>2 DEF Inv, TypeOK
  <2>11. NewOK' /\ RequestsOK'
    <3>1. stops'[r] # 0 /\ req'[r] = new
      BY <2>4, <2>7
    <3>2. \A q \in Request \ {r} : stops'[q] = stops[q] /\ req'[q] = req[q]
      BY <2>4, <2>7
    <3> QED
      BY <2>2, <3>1, <3>2 DEF Inv, NewOK, RequestsOK
  <2>12. StoppedOnce'
    <3>1. ASSUME NEW q \in Request
          PROVE  /\ Listed(q)' <=> req'[q] # NotCreated /\ stops'[q] = 0
                 /\ stops'[q] <= 1
      <4>1. CASE q = r
        BY <4>1, <2>2, <2>4, <2>7, <2>8, <2>9
      <4>2. CASE q # r
        <5>1. req'[q] = req[q] /\ stops'[q] = stops[q]
          BY <4>2, <2>4, <2>7
        <5>2. /\ Listed(q) <=> req[q] # NotCreated /\ stops[q] = 0
              /\ stops[q] <= 1
          BY DEF Inv, StoppedOnce
        <5> QED
          BY <5>1, <5>2, <2>9
      <4> QED
        BY <4>1, <4>2
    <3>2. \A i, j \in DOMAIN m_copyRequests :
            m_copyRequests[i] = m_copyRequests[j] => i = j
      BY DEF Inv, StoppedOnce
    <3> QED
      BY <2>4, <3>1, <3>2 DEF StoppedOnce
  <2>13. BatchesPairUp'
    <3>1. \A q \in Request : Listed(q) => req'[q] = req[q]
      BY <2>4, <2>7, <2>8
    <3> QED
      BY <2>4, <2>9, <3>1 DEF Inv, BatchesPairUp
  <2>14. \A q \in Request : req[q] # NotCreated => req'[q] = req[q]
    BY <2>4, <2>7
  <2>15. \A op \in inFlight' : IsOperation(op[1], op[2])
    BY <2>4 DEF Inv, OperationsOK
  <2> QED
    BY <2>6, <2>10, <2>11, <2>12, <2>13, <2>14, <2>15, InvFromParts
<1> QED
  BY <1>1, <1>2, <1>3, <1>4

(* An activation returns to the one below it.                              *)
LEMMA PopInv ==
  ASSUME Inv, callStack # <<>>,
         callStack' = Tail(callStack),
         UNCHANGED <<m_copyRequests, req, starts, stops, told, inFlight, copied,
                     undoBatches, alive>>
  PROVE  Inv'
<1>1. callStack' \in Seq(Frame) /\ Settled(callStack')
  BY SettledBelow
<1>2. /\ inFlight' \subseteq Request \X Nat
      /\ copied' \subseteq Request \X Nat
      /\ told' \in [Request -> Nat]
  BY DEF Inv, TypeOK
<1>3. \A op \in inFlight' : IsOperation(op[1], op[2])
  BY DEF Inv, OperationsOK
<1> QED
  BY <1>1, <1>2, <1>3, QueueUnchangedInv

LEMMA FolderWorksOnInv == ASSUME Inv, FolderWorksOn PROVE Inv'
<1>1. callStack # <<>> /\ Top.op = "Copying"
  BY DEF FolderWorksOn, InFolderCall, Running
<1>2. /\ Settled(Tail(callStack)) /\ Tail(callStack) \in Seq(Frame)
      /\ Top \in Frame /\ IsOperation(Top.r, Top.s)
  BY <1>1, SettledBelow
<1>3. Top.r \in Request /\ Top.s \in Nat
  BY <1>1, <1>2 DEF Frame
<1>4. /\ inFlight' \subseteq Request \X Nat
      /\ copied' \subseteq Request \X Nat
      /\ told' \in [Request -> Nat]
  BY <1>3 DEF FolderWorksOn, CurrentOp, Inv, TypeOK
<1>5. \A op \in inFlight' : IsOperation(op[1], op[2])
  BY <1>2 DEF FolderWorksOn, CurrentOp, Inv, OperationsOK
<1>6. callStack' = Tail(callStack)
  BY DEF FolderWorksOn
<1>7. UNCHANGED <<m_copyRequests, req, starts, stops, undoBatches, alive>>
  BY DEF FolderWorksOn
<1> QED
  BY <1>2, <1>4, <1>5, <1>6, <1>7, QueueUnchangedInv

(* DoNextCopy changes nothing in a request but its progress.               *)
SameRequest(p, q) ==
  \/ p = q
  \/ /\ p \in CopyRequest /\ q \in CopyRequest
     /\ p.type = q.type /\ p.src = q.src /\ p.dst = q.dst
     /\ p.dstName = q.dstName /\ p.sources = q.sources

CallsFit(stack) ==
  \A i \in 1..Len(stack) : stack[i].op = "Copying" =>
    /\ IsOperation(stack[i].r, stack[i].s)
    /\ ~stack[i].notified => i = 1 /\ Listed(stack[i].r)

LEMMA ProgressInv ==
  ASSUME Inv,
         req' \in [Request -> CopyRequest \cup {NotCreated}],
         \A q \in Request : SameRequest(req[q], req'[q]),
         starts' \in [Request -> Nat],
         callStack' \in Seq(Frame), CallsFit(callStack'),
         UNCHANGED <<m_copyRequests, stops, told, inFlight, copied, undoBatches,
                     alive>>
  PROVE  Inv'
<1>1. \A q \in Request : /\ req'[q] = NotCreated <=> req[q] = NotCreated
                         /\ req[q] # NotCreated =>
                              /\ req'[q].type = req[q].type
                              /\ req'[q].src = req[q].src
                              /\ req'[q].dstName = req[q].dstName
                              /\ req'[q].sources = req[q].sources
  BY DEF SameRequest, CopyRequest, NotCreated
<1>2. \A q \in Request : Listed(q)' <=> Listed(q)
  BY DEF Listed
<1>3. TypeOK'
  BY DEF Inv, TypeOK
<1>4. NewOK'
  BY <1>1 DEF Inv, NewOK
<1>5. RequestsOK'
  BY <1>1 DEF Inv, RequestsOK, WellFormed
<1>6. StoppedOnce'
  BY <1>1, <1>2 DEF Inv, StoppedOnce
<1>7. BatchesPairUp'
  <2>1. \A q \in Request : Listed(q) => req'[q].sources = req[q].sources
    BY <1>1 DEF Inv, StoppedOnce
  <2> QED
    BY <1>2, <2>1 DEF Inv, BatchesPairUp
<1>8. \A q \in Request : \A n : IsOperation(q, n) => IsOperation(q, n)'
  BY <1>1 DEF IsOperation
<1>9. OperationsOK'
  <2> SUFFICES ASSUME NEW op \in inFlight PROVE IsOperation(op[1], op[2])'
    BY DEF OperationsOK
  <2>1. op[1] \in Request /\ IsOperation(op[1], op[2])
    BY DEF Inv, TypeOK, OperationsOK
  <2> QED
    BY <1>8, <2>1
<1>10. CallsOK'
  <2> SUFFICES ASSUME NEW i \in DOMAIN callStack', callStack'[i].op = "Copying"
               PROVE  /\ IsOperation(callStack[i].r, callStack[i].s)'
                      /\ ~callStack'[i].notified =>
                           i = 1 /\ Listed(callStack[i].r)'
    BY DEF CallsOK
  <2>1. i \in 1..Len(callStack') /\ callStack'[i] \in Frame
    BY LenProperties, ElementOfSeq
  <2>2. callStack'[i].r \in Request
    BY <2>1 DEF Frame
  <2> QED
    BY <1>2, <1>8, <2>1, <2>2 DEF CallsFit
<1> QED
  BY <1>3, <1>4, <1>5, <1>6, <1>7, <1>9, <1>10 DEF Inv

LEMMA MarkScannedKeeps ==
  ASSUME Inv, NEW n \in Int, n <= Len(m_copyRequests)
  PROVE  /\ MarkScanned(n) \in [Request -> CopyRequest \cup {NotCreated}]
         /\ \A q \in Request : SameRequest(req[q], MarkScanned(n)[q])
<1>1. /\ req \in [Request -> CopyRequest \cup {NotCreated}]
      /\ Len(m_copyRequests) \in Nat
      /\ DOMAIN m_copyRequests = 1..Len(m_copyRequests)
  BY LenProperties DEF Inv, TypeOK
<1>2. ASSUME NEW q \in Request
      PROVE  /\ MarkScanned(n)[q] \in CopyRequest \cup {NotCreated}
             /\ SameRequest(req[q], MarkScanned(n)[q])
  <2>1. CASE MarkScanned(n)[q] = req[q]
    BY <1>1, <2>1 DEF SameRequest
  <2>2. CASE /\ MarkScanned(n)[q] = [req[q] EXCEPT !.processed = TRUE]
             /\ \E i \in 1..n : m_copyRequests[i] = q
    <3>1. Listed(q)
      BY <1>1, <2>2 DEF Listed
    <3>2. req[q] \in CopyRequest
      BY <1>1, <3>1 DEF Inv, StoppedOnce
    <3> QED
      BY <2>2, <3>2 DEF SameRequest, CopyRequest
  <2> QED
    BY <2>1, <2>2 DEF MarkScanned
<1> QED
  BY <1>2 DEF MarkScanned

LEMMA DoNextCopyInv == ASSUME Inv, DoNextCopy PROVE Inv'
<1>1. callStack # <<>> /\ Top.op = "DoNextCopy"
  BY DEF DoNextCopy, Running
<1>2. Settled(Tail(callStack)) /\ Tail(callStack) \in Seq(Frame)
  BY <1>1, SettledBelow
<1>3. UNCHANGED <<m_copyRequests, stops, told, inFlight, copied, undoBatches,
                     alive>>
  BY DEF DoNextCopy
<1>4. /\ starts \in [Request -> Nat]
      /\ req \in [Request -> CopyRequest \cup {NotCreated}]
      /\ m_copyRequests \in Seq(Request)
      /\ Len(m_copyRequests) \in Nat
      /\ DOMAIN m_copyRequests = 1..Len(m_copyRequests)
  BY LenProperties DEF Inv, TypeOK
<1>5. CASE DoNextCopyFindsNone
  <2>1. /\ req' \in [Request -> CopyRequest \cup {NotCreated}]
        /\ \A q \in Request : SameRequest(req[q], req'[q])
    BY <1>4, <1>5, MarkScannedKeeps DEF DoNextCopyFindsNone
  <2>2. callStack' = Tail(callStack) /\ starts' = starts
    BY <1>5 DEF DoNextCopyFindsNone
  <2>3. CallsFit(callStack')
    BY <1>2, <2>2 DEF CallsFit, Settled
  <2> QED
    BY <1>2, <1>3, <1>4, <2>1, <2>2, <2>3, ProgressInv
<1>6. ASSUME NEW i \in DOMAIN m_copyRequests, NEW s \in 0..MaxSources,
             DoNextCopyStarts(i, s)
      PROVE  Inv'
  <2> DEFINE r == m_copyRequests[i]
             scanned == MarkScanned(i - 1)
             frame == [op |-> "Copying", r |-> r, s |-> s, notified |-> FALSE]
  <2>1. r \in Request /\ Listed(r)
    BY <1>4, ElementOfSeq DEF Listed
  <2>2. /\ IsNextSource(r, s)
        /\ starts' = [starts EXCEPT ![r] = @ + 1]
        /\ req' = StartSource(r, s, scanned)
        /\ callStack' = Push(Tail(callStack), frame)
    BY <1>6 DEF DoNextCopyStarts
  <2>3. MaxSources \in Nat /\ s \in Nat
    BY CopyAssumption
  <2>4. frame \in Frame /\ frame.op = "Copying" /\ frame.r = r /\ frame.s = s
    BY <2>1, <2>3 DEF Frame
  <2>5. /\ scanned \in [Request -> CopyRequest \cup {NotCreated}]
        /\ \A q \in Request : SameRequest(req[q], scanned[q])
    BY <1>4, MarkScannedKeeps
  <2>6. req[r] # NotCreated /\ req[r] \in CopyRequest /\ WellFormed(req[r])
    BY <1>4, <2>1 DEF Inv, StoppedOnce, RequestsOK
  <2>7. IsOperation(r, s)
    <3> SUFFICES ASSUME req[r].type = "messages"
                 PROVE  s \in DOMAIN req[r].sources
      BY <2>6 DEF IsOperation
    <3>1. req[r].sources # <<>>
      BY <2>1, <2>6 DEF Inv, StoppedOnce, RequestsOK
    <3> QED
      BY <2>2, <3>1 DEF IsNextSource
  <2> HIDE DEF r, scanned, frame
  <2>8. /\ req' \in [Request -> CopyRequest \cup {NotCreated}]
        /\ \A q \in Request : SameRequest(req[q], req'[q])
    <3>1. scanned[r] \in CopyRequest
      BY <2>1, <2>5, <2>6 DEF SameRequest
    <3> DEFINE new == [scanned[r] EXCEPT
                         !.handled = @ \cup ({s} \ {0}),
                         !.processed = (@ \/ scanned[r].type = "file")]
    <3>2. new \in CopyRequest /\ SameRequest(req[r], new)
      <4>1. SameRequest(req[r], scanned[r])
        BY <2>1, <2>5
      <4> QED
        BY <2>3, <2>6, <3>1, <4>1 DEF SameRequest, CopyRequest
    <3>3. req' = [scanned EXCEPT ![r] = new]
      BY <2>1, <2>2, <2>5, <3>1 DEF StartSource, CopyRequest
    <3> QED
      BY <2>1, <2>5, <3>2, <3>3
  <2>9. starts' \in [Request -> Nat]
    BY <1>4, <2>1, <2>2
  <2>10. /\ callStack' \in Seq(Frame)
         /\ Len(callStack') = Len(Tail(callStack)) + 1
         /\ callStack'[1] = frame
         /\ \A k \in 2..(Len(Tail(callStack)) + 1) :
              callStack'[k] = Tail(callStack)[k - 1]
    <3> DEFINE stack == Tail(callStack)
    <3>1. stack \in Seq(Frame)
      BY <1>2
    <3> HIDE DEF stack
    <3>2. /\ Push(stack, frame) \in Seq(Frame)
          /\ Len(Push(stack, frame)) = Len(stack) + 1
          /\ Push(stack, frame)[1] = frame
          /\ \A k \in 2..(Len(stack) + 1) : Push(stack, frame)[k] = stack[k - 1]
      BY <2>4, <3>1, PushProperties
    <3> QED
      BY <2>2, <3>2 DEF stack
  <2>11. CallsFit(callStack')
    <3>1. Len(Tail(callStack)) \in Nat
      BY <1>2, LenProperties
    <3> SUFFICES ASSUME NEW k \in 1..(Len(Tail(callStack)) + 1),
                        callStack'[k].op = "Copying"
                 PROVE  /\ IsOperation(callStack'[k].r, callStack'[k].s)
                        /\ ~callStack'[k].notified =>
                             k = 1 /\ Listed(callStack'[k].r)
      BY <2>10 DEF CallsFit
    <3>2. CASE k = 1
      BY <3>2, <2>1, <2>4, <2>7, <2>10
    <3>3. CASE k # 1
      <4>1. /\ k - 1 \in 1..Len(Tail(callStack))
            /\ callStack'[k] = Tail(callStack)[k - 1]
        BY <3>1, <3>3, <2>10
      <4> QED
        BY <1>2, <4>1 DEF Settled
    <3> QED
      BY <3>2, <3>3
  <2> QED
    BY <1>3, <2>8, <2>9, <2>10, <2>11, ProgressInv
<1> QED
  BY <1>5, <1>6 DEF DoNextCopy

(* A notification carries folders and a name, and nests above stack.       *)
LEMMA NotifySettled ==
  ASSUME Inv, NEW r \in Request, NEW s \in Nat, IsOperation(r, s),
         NEW ok \in BOOLEAN, NEW stack \in Seq(Frame), Settled(stack),
         Notify(<<r, s>>, ok, stack)
  PROVE  /\ callStack' \in Seq(Frame) /\ Settled(callStack')
         /\ copied' \subseteq Request \X Nat
<1>1. PICK key \in CompletionKeys(<<r, s>>) :
        callStack' = Push(stack, [op |-> "NotifyCompletion", key |-> key,
                                  ok |-> ok, num |-> Len(m_copyRequests)])
  BY DEF Notify
<1>2. req[r] \in CopyRequest /\ WellFormed(req[r])
  BY DEF Inv, TypeOK, RequestsOK, IsOperation
<1>3. key \in Key
  <2>1. CASE req[r].type = "folders"
    <3>1. /\ req[r].src \in Folder /\ req[r].dst \in Folder
          /\ req[r].dstName \in Names
      BY <1>2, <2>1 DEF CopyRequest, WellFormed
    <3>2. CASE key \in StrayKeys(req[r])
      <4>1. /\ Parent[req[r].dst] \in Folder \cup {NoFolder}
            /\ NameOf[req[r].dst] \in Names
        BY <3>1, CopyAssumption
      <4> QED
        BY <3>1, <3>2, <4>1 DEF StrayKeys, Key
    <3>3. CASE key \notin StrayKeys(req[r])
      <4>1. \E n \in {req[r].dstName} \cup {m \in {RenamedTo} : "rename" \in Env} :
              key = [src |-> req[r].src, dst |-> NewFolder,
                     parent |-> req[r].dst, name |-> n]
        BY <1>1, <2>1, <3>3 DEF CompletionKeys
      <4> QED
        BY <3>1, <4>1 DEF Key, Names
    <3> QED
      BY <3>2, <3>3
  <2>2. CASE req[r].type # "folders"
    <3> DEFINE src == IF req[r].type = "file" THEN req[r].src
                                              ELSE req[r].sources[s]
    <3>1. key = [src |-> src, dst |-> req[r].dst,
                 parent |-> Parent[req[r].dst], name |-> NameOf[req[r].dst]]
      BY <1>1, <2>2 DEF CompletionKeys
    <3>2. src \in Folder \cup File
      <4>1. CASE req[r].type = "file"
        BY <1>2, <4>1 DEF CopyRequest
      <4>2. CASE req[r].type = "messages"
        <5>1. req[r].sources \in Seq(Folder) /\ s \in DOMAIN req[r].sources
          BY <1>2, <4>2 DEF WellFormed, IsOperation
        <5>2. req[r].sources[s] \in Folder
          BY <5>1, LenProperties, ElementOfSeq
        <5> QED
          BY <4>2, <5>2
      <4> QED
        BY <1>2, <2>2, <4>1, <4>2 DEF CopyRequest
    <3>3. /\ req[r].dst \in Folder
          /\ Parent[req[r].dst] \in Folder \cup {NoFolder}
          /\ NameOf[req[r].dst] \in Names
      BY <1>2, CopyAssumption DEF CopyRequest
    <3> HIDE DEF src
    <3> QED
      BY <3>1, <3>2, <3>3 DEF Key
  <2> QED
    BY <2>1, <2>2
<1> DEFINE frame == [op |-> "NotifyCompletion", key |-> key, ok |-> ok,
                     num |-> Len(m_copyRequests)]
<1>4. frame \in Frame /\ frame.op # "Copying"
  <2>1. Len(m_copyRequests) \in Int
    BY LenProperties DEF Inv, TypeOK
  <2> QED
    BY <1>3, <2>1 DEF Frame
<1>5. callStack' = Push(stack, frame)
  BY <1>1
<1>6. copied' \subseteq Request \X Nat
  BY DEF Notify, Inv, TypeOK
<1> HIDE DEF frame
<1> QED
  BY <1>4, <1>5, <1>6, SettledPush

LEMMA FolderNotifiesAtOnceInv == ASSUME Inv, FolderNotifiesAtOnce PROVE Inv'
<1>1. callStack # <<>> /\ Top.op = "Copying"
  BY DEF FolderNotifiesAtOnce, InFolderCall, Running
<1>2. /\ Settled(Tail(callStack)) /\ Tail(callStack) \in Seq(Frame)
      /\ Top \in Frame /\ IsOperation(Top.r, Top.s)
  BY <1>1, SettledBelow
<1>3. Top.r \in Request /\ Top.s \in Nat
  BY <1>1, <1>2 DEF Frame
<1> DEFINE frame == [Top EXCEPT !.notified = TRUE]
           stack == Push(Tail(callStack), frame)
<1>4. /\ frame \in Frame /\ frame.op = "Copying" /\ frame.notified
      /\ frame.r = Top.r /\ frame.s = Top.s
  BY <1>1, <1>2 DEF Frame
<1>5. PICK ok \in BOOLEAN : Notify(<<Top.r, Top.s>>, ok, stack)
  BY DEF FolderNotifiesAtOnce, CurrentOp
<1>6. UNCHANGED <<m_copyRequests, req, starts, stops, told, inFlight,
                  undoBatches, alive>>
  BY DEF FolderNotifiesAtOnce
<1> HIDE DEF frame
<1>7. stack \in Seq(Frame) /\ Settled(stack)
  BY <1>2, <1>4, SettledPush
<1> HIDE DEF stack
<1>8. /\ callStack' \in Seq(Frame) /\ Settled(callStack')
      /\ copied' \subseteq Request \X Nat
  BY <1>2, <1>3, <1>5, <1>7, NotifySettled
<1>9. /\ inFlight' \subseteq Request \X Nat
      /\ told' \in [Request -> Nat]
      /\ \A op \in inFlight' : IsOperation(op[1], op[2])
  BY <1>6 DEF Inv, TypeOK, OperationsOK
<1> QED
  BY <1>6, <1>8, <1>9, QueueUnchangedInv

LEMMA FolderRefusesInv == ASSUME Inv, FolderRefuses PROVE Inv'
<1>1. callStack # <<>> /\ Top.op = "Copying" /\ ~Top.notified
  BY DEF FolderRefuses, InFolderCall, Running
<1>2. /\ Settled(Tail(callStack)) /\ Tail(callStack) \in Seq(Frame)
      /\ Top \in Frame /\ Listed(Top.r)
  BY <1>1, SettledBelow
<1>3. Top.r \in Request
  BY <1>1, <1>2 DEF Frame
<1>4. /\ ClearRequest(Top.r, FALSE, Tail(callStack))
      /\ UNCHANGED <<req, starts, told, inFlight, copied, alive>>
  BY DEF FolderRefuses
<1> QED
  BY <1>2, <1>3, <1>4, ClearRequestInv

LEMMA NotifyCompletionInv == ASSUME Inv, NotifyCompletion PROVE Inv'
<1>1. callStack # <<>> /\ Top.op = "NotifyCompletion"
  BY DEF NotifyCompletion, Running
<1>2. /\ Settled(Tail(callStack)) /\ Tail(callStack) \in Seq(Frame)
      /\ Top \in Frame
  BY <1>1, SettledBelow
<1>3. UNCHANGED <<req, starts, told, inFlight, copied, alive>>
  BY DEF NotifyCompletion
<1>4. CASE NotifyCompletionClears
  <2> DEFINE frame == [Top EXCEPT !.num = @ - 1]
             stack == Push(Tail(callStack), frame)
  <2>1. PICK i \in DOMAIN m_copyRequests :
          ClearRequest(m_copyRequests[i], Top.ok, stack)
    BY <1>4 DEF NotifyCompletionClears
  <2>2. frame \in Frame /\ frame.op # "Copying" /\ Top.ok \in BOOLEAN
    BY <1>1, <1>2 DEF Frame
  <2> HIDE DEF frame
  <2>3. stack \in Seq(Frame) /\ Settled(stack)
    BY <1>2, <2>2, SettledPush
  <2> HIDE DEF stack
  <2>4. m_copyRequests[i] \in Request /\ Listed(m_copyRequests[i])
    BY LenProperties, ElementOfSeq DEF Inv, TypeOK, Listed
  <2> QED
    BY <1>3, <2>1, <2>2, <2>3, <2>4, ClearRequestInv
<1>5. CASE NotifyCompletionEnds
  <2> DEFINE frame == [op |-> "DoNextCopy"]
  <2>1. frame \in Frame /\ frame.op # "Copying"
    BY DEF Frame
  <2>2. /\ callStack' = Push(Tail(callStack), frame)
        /\ UNCHANGED <<m_copyRequests, undoBatches, stops>>
    BY <1>5 DEF NotifyCompletionEnds
  <2> HIDE DEF frame
  <2>3. callStack' \in Seq(Frame) /\ Settled(callStack')
    BY <1>2, <2>1, <2>2, SettledPush
  <2>4. /\ inFlight' \subseteq Request \X Nat
        /\ told' \in [Request -> Nat]
        /\ copied' \subseteq Request \X Nat
        /\ \A op \in inFlight' : IsOperation(op[1], op[2])
    BY <1>3 DEF Inv, TypeOK, OperationsOK
  <2> QED
    BY <1>3, <2>2, <2>3, <2>4, QueueUnchangedInv
<1> QED
  BY <1>4, <1>5 DEF NotifyCompletion

LEMMA FolderNotifiesInv ==
  ASSUME Inv, NEW op \in inFlight, FolderNotifies(op) \/ AbortFileCopy(op)
  PROVE  Inv'
<1>1. PICK r \in Request, s \in Nat : op = <<r, s>>
  BY DEF Inv, TypeOK
<1>2. IsOperation(r, s)
  BY <1>1 DEF Inv, OperationsOK
<1>3. callStack = <<>>
  BY DEF FolderNotifies, AbortFileCopy
<1>4. PICK ok \in BOOLEAN : Notify(<<r, s>>, ok, callStack)
  BY <1>1 DEF FolderNotifies, AbortFileCopy
<1>5. callStack \in Seq(Frame) /\ Settled(callStack)
  BY <1>3, SettledEmpty
<1>6. /\ callStack' \in Seq(Frame) /\ Settled(callStack')
      /\ copied' \subseteq Request \X Nat
  BY <1>2, <1>4, <1>5, NotifySettled
<1>7. /\ UNCHANGED <<m_copyRequests, req, starts, stops, told, undoBatches, alive>>
      /\ inFlight' \subseteq inFlight
  BY DEF FolderNotifies, AbortFileCopy
<1>8. /\ inFlight' \subseteq Request \X Nat
      /\ told' \in [Request -> Nat]
      /\ \A o \in inFlight' : IsOperation(o[1], o[2])
  BY <1>7 DEF Inv, TypeOK, OperationsOK
<1> QED
  BY <1>6, <1>7, <1>8, QueueUnchangedInv

LEMMA FolderEndsSilentlyInv ==
  ASSUME Inv, NEW op \in inFlight, FolderEndsSilently(op)
  PROVE  Inv'
<1>1. callStack = <<>> /\ callStack' = callStack
  BY DEF FolderEndsSilently
<1>2. callStack' \in Seq(Frame) /\ Settled(callStack')
  BY <1>1, SettledEmpty
<1>3. /\ UNCHANGED <<m_copyRequests, req, starts, stops, told, copied,
                     undoBatches, alive>>
      /\ inFlight' \subseteq inFlight
  BY DEF FolderEndsSilently
<1>4. /\ inFlight' \subseteq Request \X Nat
      /\ copied' \subseteq Request \X Nat
      /\ told' \in [Request -> Nat]
      /\ \A o \in inFlight' : IsOperation(o[1], o[2])
  BY <1>3 DEF Inv, TypeOK, OperationsOK
<1> QED
  BY <1>2, <1>3, <1>4, QueueUnchangedInv

(* A folder that calls a listener itself leaves the queue as it is.        *)
LEMMA FolderTellsAgainInv == ASSUME Inv, FolderTellsAgain PROVE Inv'
<1>1. callStack # <<>> /\ Top.op = "Copying"
  BY DEF FolderTellsAgain, Running
<1>2. /\ Settled(Tail(callStack)) /\ Tail(callStack) \in Seq(Frame)
      /\ Top \in Frame
  BY <1>1, SettledBelow
<1>3. Top.r \in Request
  BY <1>1, <1>2 DEF Frame
<1> DEFINE frame == [op |-> "OnStopCopy", r |-> Top.r, ok |-> TRUE]
<1>4. frame \in Frame /\ frame.op # "Copying"
  BY <1>3 DEF Frame
<1>5. callStack' = Push(Tail(callStack), frame)
  BY DEF FolderTellsAgain
<1> HIDE DEF frame
<1>6. callStack' \in Seq(Frame) /\ Settled(callStack')
  BY <1>2, <1>4, <1>5, SettledPush
<1>7. told' \in [Request -> Nat]
  BY <1>3 DEF FolderTellsAgain, Inv, TypeOK
<1>8. /\ UNCHANGED <<m_copyRequests, req, starts, stops, undoBatches, alive>>
      /\ inFlight' = inFlight /\ copied' = copied
  BY DEF FolderTellsAgain
<1>9. /\ inFlight' \subseteq Request \X Nat
      /\ copied' \subseteq Request \X Nat
      /\ \A o \in inFlight' : IsOperation(o[1], o[2])
  BY <1>8 DEF Inv, TypeOK, OperationsOK
<1> QED
  BY <1>6, <1>7, <1>8, <1>9, QueueUnchangedInv

LEMMA FolderTellsListenerInv ==
  ASSUME Inv, NEW op \in inFlight, FolderTellsListener(op)
  PROVE  Inv'
<1>1. PICK r \in Request, s \in Nat : op = <<r, s>>
  BY DEF Inv, TypeOK
<1>2. callStack \in Seq(Frame) /\ Settled(callStack)
  BY MayCallSettled DEF FolderTellsListener, Running
<1> DEFINE frame == [op |-> "OnStopCopy", r |-> r, ok |-> FALSE]
<1>3. frame \in Frame /\ frame.op # "Copying"
  BY DEF Frame
<1>4. callStack' = Push(callStack, frame)
  BY <1>1 DEF FolderTellsListener
<1> HIDE DEF frame
<1>5. callStack' \in Seq(Frame) /\ Settled(callStack')
  BY <1>2, <1>3, <1>4, SettledPush
<1>6. told' \in [Request -> Nat]
  BY <1>1 DEF FolderTellsListener, Inv, TypeOK
<1>7. /\ UNCHANGED <<m_copyRequests, req, starts, stops, undoBatches, alive>>
      /\ inFlight' \subseteq inFlight /\ copied' = copied
  BY DEF FolderTellsListener
<1>8. /\ inFlight' \subseteq Request \X Nat
      /\ copied' \subseteq Request \X Nat
      /\ \A o \in inFlight' : IsOperation(o[1], o[2])
  BY <1>7 DEF Inv, TypeOK, OperationsOK
<1> QED
  BY <1>5, <1>6, <1>7, <1>8, QueueUnchangedInv

LEMMA DestroyInv == ASSUME Inv, Destroy PROVE Inv'
<1>1. /\ m_copyRequests' = <<>>
      /\ undoBatches' = undoBatches \ ToSet(m_copyRequests)
      /\ stops' = [r \in Request |-> IF Listed(r) THEN stops[r] + 1
                                                  ELSE stops[r]]
      /\ inFlight' = {}
      /\ callStack = <<>> /\ callStack' = <<>>
      /\ alive' = FALSE
      /\ UNCHANGED <<req, starts, told, copied>>
  BY DEF Destroy
<1>2. stops \in [Request -> Nat]
  BY DEF Inv, TypeOK
<1>3. \A q \in Request : ~Listed(q)'
  BY <1>1 DEF Listed
<1>4. TypeOK'
  <2>1. m_copyRequests' \in Seq(Request)
    BY <1>1, EmptySeq
  <2>2. callStack' \in Seq(Frame)
    BY <1>1, SettledEmpty
  <2>3. stops' \in [Request -> Nat]
    BY <1>1, <1>2
  <2>4. /\ inFlight' \subseteq Request \X Nat
        /\ undoBatches' \subseteq Request
        /\ alive' \in BOOLEAN
    BY <1>1 DEF Inv, TypeOK
  <2>5. /\ req' \in [Request -> CopyRequest \cup {NotCreated}]
        /\ starts' \in [Request -> Nat]
        /\ told' \in [Request -> Nat]
        /\ copied' \subseteq Request \X Nat
    BY <1>1 DEF Inv, TypeOK
  <2> QED
    BY <2>1, <2>2, <2>3, <2>4, <2>5 DEF TypeOK
<1>5. NewOK'
  <2> SUFFICES ASSUME NEW q \in Request, req[q] = NotCreated
               PROVE  stops'[q] = 0
    BY <1>1 DEF NewOK
  <2>1. stops[q] = 0 /\ ~Listed(q)
    BY DEF Inv, NewOK, StoppedOnce
  <2> QED
    BY <1>1, <2>1
<1>6. RequestsOK'
  <2>1. \A q \in Request : stops'[q] = 0 => stops[q] = 0
    BY <1>1, <1>2
  <2> QED
    BY <1>1, <2>1 DEF Inv, RequestsOK
<1>7. StoppedOnce'
  <2>1. ASSUME NEW q \in Request
        PROVE  /\ ~(req[q] # NotCreated /\ stops'[q] = 0)
               /\ stops'[q] <= 1
    <3>1. /\ Listed(q) <=> req[q] # NotCreated /\ stops[q] = 0
          /\ stops[q] <= 1
      BY DEF Inv, StoppedOnce
    <3>2. CASE Listed(q)
      BY <1>1, <1>2, <3>1, <3>2
    <3>3. CASE ~Listed(q)
      BY <1>1, <1>2, <3>1, <3>3
    <3> QED
      BY <3>2, <3>3
  <2>2. DOMAIN m_copyRequests' = {}
    BY <1>1
  <2> QED
    BY <1>1, <1>3, <2>1, <2>2 DEF StoppedOnce
<1>8. BatchesPairUp'
  <2>1. undoBatches' = {}
    <3>1. \A q \in undoBatches : Listed(q)
      BY DEF Inv, BatchesPairUp
    <3>2. \A q : Listed(q) => q \in ToSet(m_copyRequests)
      BY DEF Listed, ToSet
    <3> QED
      BY <1>1, <3>1, <3>2
  <2> QED
    BY <1>3, <2>1 DEF BatchesPairUp
<1>9. Settled(callStack')
  BY <1>1, SettledEmpty
<1>10. \A op \in inFlight' : IsOperation(op[1], op[2])
  BY <1>1
<1>11. \A q \in Request : req'[q] = req[q]
  BY <1>1
<1> QED
  BY <1>4, <1>5, <1>6, <1>7, <1>8, <1>9, <1>10, <1>11, InvFromParts

-----------------------------------------------------------------------------
(* The invariant is inductive.                                             *)

LEMMA NextInv == Inv /\ [Next]_vars => Inv'
<1> SUFFICES ASSUME Inv, [Next]_vars PROVE Inv'
  OBVIOUS
<1>1. CASE Call
  BY <1>1, CallInv
<1>2. CASE Resume
  <2>1. CASE DoNextCopy
    BY <2>1, DoNextCopyInv
  <2>2. CASE FolderWorksOn
    BY <2>2, FolderWorksOnInv
  <2>3. CASE FolderNotifiesAtOnce
    BY <2>3, FolderNotifiesAtOnceInv
  <2>4. CASE FolderRefuses
    BY <2>4, FolderRefusesInv
  <2>5. CASE FolderFailsSilently
    BY <2>5, PopInv DEF FolderFailsSilently, InFolderCall, Running
  <2>6. CASE FolderCallReturns
    BY <2>6, PopInv DEF FolderCallReturns, Running
  <2>7. CASE NotifyCompletion
    BY <2>7, NotifyCompletionInv
  <2>8. CASE OnStopCopyReturns
    BY <2>8, PopInv DEF OnStopCopyReturns, Running
  <2>9. CASE FolderTellsAgain
    BY <2>9, FolderTellsAgainInv
  <2> QED
    BY <1>2, <2>1, <2>2, <2>3, <2>4, <2>5, <2>6, <2>7, <2>8, <2>9 DEF Resume
<1>3. ASSUME NEW op \in inFlight,
             \/ FolderNotifies(op)
             \/ FolderEndsSilently(op)
             \/ FolderTellsListener(op)
             \/ AbortFileCopy(op)
      PROVE  Inv'
  BY <1>3, FolderNotifiesInv, FolderEndsSilentlyInv, FolderTellsListenerInv
<1>4. CASE Destroy
  BY <1>4, DestroyInv
<1>5. CASE UNCHANGED vars
  BY <1>5 DEF vars, Inv, TypeOK, NewOK, StoppedOnce, BatchesPairUp,
              RequestsOK, OperationsOK, CallsOK, IsOperation, Listed
<1> QED
  BY <1>1, <1>2, <1>3, <1>4, <1>5 DEF Next

LEMMA InvAlways == Spec => []Inv
  BY InitInv, NextInv, PTL DEF Spec

(* Every variable of the service keeps its type, whatever the callers, the
   folders and the listeners do.                                           *)
THEOREM TypeCorrect == Spec => []TypeOK
<1>1. Inv => TypeOK
  BY DEF Inv
<1> QED
  BY <1>1, InvAlways, PTL

(* No request is ever cleared twice, queued twice, or dropped from the queue
   without the service telling its listener: ClearRequest, which deletes the
   object, runs at most once for each.  This is about the service's own
   calls, and holds also for folders that call the listener themselves.     *)
THEOREM StoppedOnceAlways == Spec => []StoppedOnce
<1>1. Inv => StoppedOnce
  BY DEF Inv
<1> QED
  BY <1>1, InvAlways, PTL

(* BeginBatch and EndBatch pair up on every path by which a request leaves
   the queue, the destructor's included.                                   *)
THEOREM BatchesPairUpAlways == Spec => []BatchesPairUp
<1>1. Inv => BatchesPairUp
  BY DEF Inv
<1> QED
  BY <1>1, InvAlways, PTL

(* Only the folders of the circumstance "tells" call a listener themselves. *)
NoneTold == "tells" \notin Env => \A r \in Request : told[r] = 0

LEMMA NoneToldStep == NoneTold /\ [Next]_vars => NoneTold'
<1> SUFFICES ASSUME NoneTold, [Next]_vars, "tells" \notin Env
             PROVE  told' = told
  BY DEF NoneTold
<1>1. CASE Call
  <2>1. ASSUME NEW r, NEW type, NEW src, NEW dst, NEW sources,
               Submit(r, type, src, dst, sources)
        PROVE  told' = told
    BY <2>1 DEF Submit
  <2>2. ASSUME NEW r \in Request, CopyNoMessages(r) PROVE told' = told
    BY <2>2 DEF CopyNoMessages
  <2>3. ASSUME NEW r \in Request, CopyMessages(r) PROVE told' = told
    BY <2>1, <2>3 DEF CopyMessages
  <2>4. ASSUME NEW r \in Request, CopyFolders(r) \/ CopyFileMessage(r)
        PROVE  told' = told
    BY <2>1, <2>4 DEF CopyFolders, CopyFileMessage
  <2> QED
    BY <1>1, <2>2, <2>3, <2>4 DEF Call
<1>2. CASE Resume
  BY <1>2 DEF Resume, DoNextCopy, FolderWorksOn, FolderNotifiesAtOnce,
              FolderRefuses, FolderFailsSilently, FolderTellsAgain,
              FolderCallReturns, NotifyCompletion, OnStopCopyReturns
<1>3. CASE \E op \in inFlight : \/ FolderNotifies(op)
                                \/ FolderEndsSilently(op)
                                \/ FolderTellsListener(op)
                                \/ AbortFileCopy(op)
  BY <1>3 DEF FolderNotifies, FolderEndsSilently, FolderTellsListener,
              AbortFileCopy
<1>4. CASE Destroy
  BY <1>4 DEF Destroy
<1>5. CASE UNCHANGED vars
  BY <1>5 DEF vars
<1> QED
  BY <1>1, <1>2, <1>3, <1>4, <1>5 DEF Next

(* Every way out of the queue closes the request: it is cleared once, its
   batch ends, and its listener is told once unless the folder called it.   *)
THEOREM RequestsAreClosedAlways == Spec => []RequestsAreClosed
<1>1. Init => NoneTold
  BY DEF Init, NoneTold
<1>2. Inv /\ NoneTold => RequestsAreClosed
  <2> SUFFICES ASSUME Inv, NoneTold PROVE ToldOnce
    BY DEF Inv, RequestsAreClosed
  <2> SUFFICES ASSUME "tells" \notin Env, NEW r \in Request
               PROVE  stops[r] + told[r] <= 1
    BY DEF ToldOnce
  <2>1. told[r] = 0 /\ stops[r] <= 1 /\ stops[r] \in Nat
    BY DEF NoneTold, Inv, StoppedOnce, TypeOK
  <2> QED
    BY <2>1
<1> QED
  BY <1>1, <1>2, NoneToldStep, InvAlways, PTL DEF Spec

-----------------------------------------------------------------------------
(* The order of starts.                                                    *)

(* DoNextCopy never reaches a request that has an older one for the same
   folder before it: the older one is being copied, or is itself kept
   waiting by one that is, and in both cases the target counts as active.  *)
LEMMA OlderRequestBlocks ==
  ASSUME NEW n \in Nat, NEW i \in 1..n, NEW j \in 1..(i - 1),
         req[m_copyRequests[j]].dst = req[m_copyRequests[i]].dst,
         \A k \in 1..(i - 1) : ~Startable(k)
  PROVE  ~Startable(i)
<1>1. CASE Processed(m_copyRequests[j])
  BY <1>1 DEF Startable, TargetActiveBefore
<1>2. CASE ~Processed(m_copyRequests[j])
  <2>1. TargetActiveBefore(j)
    BY <1>2 DEF Startable
  <2>2. PICK k \in 1..(j - 1) :
          /\ Processed(m_copyRequests[k])
          /\ req[m_copyRequests[k]].dst = req[m_copyRequests[j]].dst
    BY <2>1 DEF TargetActiveBefore
  <2>3. k \in 1..(i - 1)
    OBVIOUS
  <2> QED
    BY <2>2, <2>3 DEF Startable, TargetActiveBefore
<1> QED
  BY <1>1, <1>2

StartsStep ==
  \A i \in DOMAIN m_copyRequests : \A j \in 1..(i - 1) :
    req[m_copyRequests[j]].dst = req[m_copyRequests[i]].dst
      => starts'[m_copyRequests[i]] = starts[m_copyRequests[i]]

LEMMA StartsInOrderStep == Inv /\ [Next]_vars => StartsStep
<1> SUFFICES ASSUME Inv, [Next]_vars,
                    NEW i \in DOMAIN m_copyRequests, NEW j \in 1..(i - 1),
                    req[m_copyRequests[j]].dst = req[m_copyRequests[i]].dst
             PROVE  starts'[m_copyRequests[i]] = starts[m_copyRequests[i]]
  BY DEF StartsStep
<1>1. /\ DOMAIN m_copyRequests = 1..Len(m_copyRequests)
      /\ Len(m_copyRequests) \in Nat
      /\ m_copyRequests[i] \in Request
      /\ starts \in [Request -> Nat]
  BY LenProperties, ElementOfSeq DEF Inv, TypeOK
<1>2. CASE starts' = starts
  BY <1>2
<1>3. CASE DoNextCopy
  <2>1. CASE DoNextCopyFindsNone
    BY <2>1 DEF DoNextCopyFindsNone
  <2>2. ASSUME NEW k \in DOMAIN m_copyRequests, NEW s \in 0..MaxSources,
               DoNextCopyStarts(k, s)
        PROVE  starts'[m_copyRequests[i]] = starts[m_copyRequests[i]]
    <3>1. k # i
      BY <1>1, <2>2, OlderRequestBlocks DEF DoNextCopyStarts
    <3>2. m_copyRequests[k] # m_copyRequests[i]
      BY <3>1 DEF Inv, StoppedOnce
    <3>3. starts' = [starts EXCEPT ![m_copyRequests[k]] = @ + 1]
      BY <2>2 DEF DoNextCopyStarts
    <3> QED
      BY <1>1, <3>2, <3>3
  <2> QED
    BY <1>3, <2>1, <2>2 DEF DoNextCopy
<1>4. ASSUME NEW r \in Request, CopyNoMessages(r)
      PROVE  starts'[m_copyRequests[i]] = starts[m_copyRequests[i]]
  <2>1. req[r] = NotCreated /\ starts' = [starts EXCEPT ![r] = @ + 1]
    BY <1>4 DEF CopyNoMessages, IsNext
  <2>2. Listed(m_copyRequests[i])
    BY DEF Listed
  <2>3. m_copyRequests[i] # r
    BY <1>1, <2>1, <2>2 DEF Inv, StoppedOnce
  <2> QED
    BY <1>1, <2>1, <2>3
<1>5. \/ starts' = starts
      \/ DoNextCopy
      \/ \E r \in Request : CopyNoMessages(r)
  <2>1. CASE Call
    <3>1. ASSUME NEW r, NEW type, NEW src, NEW dst, NEW sources,
                 Submit(r, type, src, dst, sources)
          PROVE  starts' = starts
      BY <3>1 DEF Submit
    <3>2. ASSUME NEW r \in Request, CopyMessages(r) PROVE starts' = starts
      BY <3>1, <3>2 DEF CopyMessages
    <3>3. ASSUME NEW r \in Request, CopyFolders(r) \/ CopyFileMessage(r)
          PROVE  starts' = starts
      BY <3>1, <3>3 DEF CopyFolders, CopyFileMessage
    <3> QED
      BY <2>1, <3>2, <3>3 DEF Call
  <2>2. CASE Resume
    BY <2>2 DEF Resume, FolderWorksOn, FolderNotifiesAtOnce, FolderRefuses,
                FolderFailsSilently, FolderTellsAgain, FolderCallReturns,
                NotifyCompletion, OnStopCopyReturns
  <2>3. CASE \E op \in inFlight : \/ FolderNotifies(op)
                                  \/ FolderEndsSilently(op)
                                  \/ FolderTellsListener(op)
                                  \/ AbortFileCopy(op)
    BY <2>3 DEF FolderNotifies, FolderEndsSilently, FolderTellsListener,
                AbortFileCopy
  <2>4. CASE Destroy
    BY <2>4 DEF Destroy
  <2>5. CASE UNCHANGED vars
    BY <2>5 DEF vars
  <2> QED
    BY <2>1, <2>2, <2>3, <2>4, <2>5 DEF Next
<1> QED
  BY <1>2, <1>3, <1>4, <1>5

(* "always FIFO": however its completions nest and whatever is submitted
   from a listener, DoNextCopy starts no request while an older one for the
   same folder is on the queue.                                            *)
THEOREM StartsInOrderAlways == Spec => StartsInOrder
<1>1. Inv /\ [Next]_vars => [StartsStep]_vars
  BY StartsInOrderStep
<1> QED
  BY <1>1, InvAlways, PTL DEF Spec, StartsInOrder, StartsStep

=============================================================================
