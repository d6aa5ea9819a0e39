-------------------------- MODULE CopyMatchingProofs --------------------------
(***************************************************************************)
(* Proofs about CopyService that need callers and folders to behave: a     *)
(* folder works on one operation at a time, completions are matched to     *)
(* their requests, the queue never stalls, and CopyPromise is kept.        *)
(***************************************************************************)
EXTENDS CopyServiceProofs, FiniteSetTheorems

-----------------------------------------------------------------------------
(* What is assumed of callers and folders.                                 *)

(* Callers keep to what nsIMsgCopyService.idl asks of them, a request has one
   source, no folder has a parent that requests are made for, a copied folder
   keeps its name and is reported as such, and folders leave it to the service
   to call the listener.  The last two are not so of every folder: a local
   folder reports a copy across servers of a folder without messages as the
   new folder on both sides, nsImapFolderCopyState and nsMsgMaildirStore call
   the listener themselves.                                                *)
Ordinary ==
  /\ MaxSources = 1
  /\ \A f \in Folder : Parent[f] = NoFolder
  /\ Env \cap {"duplicate", "retry", "rename", "abort", "strays", "tells"} = {}

(* The end of every operation is notified.                                 *)
EndsAreTold == Env \cap {"refuse", "silent"} = {}

-----------------------------------------------------------------------------
(* The inductive invariant.                                                *)

(* The only operation of a request.                                        *)
OpOf(r) == <<r, IF req[r].sources = <<>> THEN 0 ELSE 1>>

Single(q) ==
  /\ q.src # q.dst
  /\ q.type = "messages" => q.src \in Folder /\ q.sources = <<q.src>>
  /\ q.type = "folders" => /\ q.src \in Folder /\ q.sources = <<q.src>>
                           /\ q.dstName = NameOf[q.src]
  /\ q.type = "file" => q.src \in File /\ q.sources \in {<<>>, <<NoFolder>>}

SinglesOK == \A r \in Request : Listed(r) => Single(req[r])

(* The pair of source and destination tells listed requests apart.         *)
PairsOK ==
  \A q, r \in Request :
    Listed(q) /\ Listed(r) /\ req[q].src = req[r].src /\ req[q].dst = req[r].dst => q = r

(* q is before r on the queue.                                             *)
Older(q, r) ==
  \E i \in 1..Len(m_copyRequests) : \E j \in 1..(i - 1) :
    m_copyRequests[j] = q /\ m_copyRequests[i] = r

(* Only the oldest request for a folder is begun.                          *)
FirstOK ==
  \A q, r \in Request : Older(q, r) /\ req[q].dst = req[r].dst => ~Processed(r)

(* What a folder works on is the operation of a listed request.            *)
ActiveOK ==
  /\ \A a \in Active : Listed(a[1]) /\ Processed(a[1]) /\ a = OpOf(a[1])
  /\ InFolderCall => CurrentOp \notin inFlight

(* A key made from a request that copies a folder, or from another.        *)
Genuine(key) ==
  IF key.dst = NewFolder
    THEN key.src \in Folder /\ key.name = NameOf[key.src]
    ELSE key.parent = NoFolder

Completing(r) == Running("NotifyCompletion") /\ Matches(r, Top.key)

(* The request found by a key is cleared in the first turn of the loop.    *)
TopOK ==
  Running("NotifyCompletion") =>
    /\ Genuine(Top.key)
    /\ \A r \in Request : Listed(r) /\ Completing(r) =>
         /\ Top.num = Len(m_copyRequests)
         /\ Processed(r) /\ OpOf(r) \notin Active
         /\ Top.ok => OpOf(r) \in copied

(* No other activation will find a request, and none told a listener of
   success too early.                                                      *)
Spent(frame) ==
  frame.op = "NotifyCompletion" =>
    Genuine(frame.key) /\ \A r \in Request : Listed(r) => ~Matches(r, frame.key)

Truthful(frame) ==
  frame.op = "OnStopCopy" =>
    /\ req[frame.r] # NotCreated
    /\ frame.ok => \A s \in SourcesToCopy(frame.r) : <<frame.r, s>> \in copied

FramesOf(stack) == {stack[i] : i \in 1..Len(stack)}
Below == IF callStack = <<>> THEN {} ELSE FramesOf(Tail(callStack))

FramesOK ==
  /\ \A frame \in Below : Spent(frame) /\ Truthful(frame)
  /\ callStack # <<>> => Truthful(Top)

CopiedOK ==
  \A op \in copied : /\ req[op[1]] # NotCreated
                     /\ Listed(op[1]) => Completing(op[1])

(* A request that was begun will be completed.                             *)
BegunOK ==
  EndsAreTold => \A r \in Request :
    Listed(r) /\ Processed(r) => OpOf(r) \in Active \/ Completing(r)

(* Folders that are wanted and idle ...                                    *)
Idle ==
  {f \in Folder :
     /\ \E r \in Request : Listed(r) /\ req[r].dst = f
     /\ \A r \in Request : Listed(r) /\ req[r].dst = f => ~Processed(r)}

(* ... and the activations that will look for a request to start: those of
   NotifyCompletion go on with DoNextCopy.                                 *)
Looks(frame) == frame.op \in {"DoNextCopy", "NotifyCompletion"}
Looking(stack) == {i \in 1..Len(stack) : Looks(stack[i])}

(* There are enough of them, and one more if the newest has a request to
   clear, whose folder will then be idle.                                  *)
Awaited == \E r \in Request : Listed(r) /\ Completing(r)
ToBeIdle == IF Awaited THEN 1 ELSE 0

IdleOK ==
  EndsAreTold => /\ IsFiniteSet(Idle)
                 /\ Cardinality(Idle) + ToBeIdle <= Cardinality(Looking(callStack))

MatchInv ==
  /\ Inv
  /\ SinglesOK /\ PairsOK /\ FirstOK /\ ActiveOK
  /\ TopOK /\ FramesOK /\ CopiedOK
  /\ BegunOK /\ IdleOK


-----------------------------------------------------------------------------
(* Activations.                                                            *)

LEMMA LookingFinite ==
  ASSUME NEW stack \in Seq(Frame)
  PROVE  /\ IsFiniteSet(Looking(stack))
         /\ Cardinality(Looking(stack)) \in Nat
<1>1. IsFiniteSet(1..Len(stack))
  BY FS_Interval, LenProperties
<1>2. Looking(stack) \in SUBSET (1..Len(stack))
  BY DEF Looking
<1>3. IsFiniteSet(Looking(stack))
  BY <1>1, <1>2, FS_Subset
<1> QED
  BY <1>3, FS_CardinalityType

(* What is above and below the newest activation.                          *)
LEMMA PushShape ==
  ASSUME NEW stack \in Seq(Frame), NEW frame \in Frame
  PROVE  /\ Push(stack, frame) # <<>>
         /\ Push(stack, frame) \in Seq(Frame)
         /\ Head(Push(stack, frame)) = frame
         /\ Tail(Push(stack, frame)) = stack
         /\ FramesOf(Push(stack, frame)) = FramesOf(stack) \cup {frame}
<1> DEFINE new == Push(stack, frame)
<1>1. /\ new \in Seq(Frame)
      /\ Len(new) = Len(stack) + 1
      /\ new[1] = frame
      /\ \A i \in 2..(Len(stack) + 1) : new[i] = stack[i - 1]
  BY PushProperties
<1> HIDE DEF new
<1>2. Len(stack) \in Nat
  BY LenProperties
<1>3. new # <<>>
  BY <1>1, <1>2
<1>4. /\ Head(new) = new[1]
      /\ Tail(new) \in Seq(Frame)
      /\ Len(Tail(new)) = Len(new) - 1
      /\ \A i \in 1..(Len(new) - 1) : Tail(new)[i] = new[i + 1]
  BY <1>1, <1>3, PopProperties
<1>5. Tail(new) = stack
  <2>1. Len(Tail(new)) = Len(stack)
    BY <1>1, <1>2, <1>4
  <2>2. \A i \in 1..Len(stack) : Tail(new)[i] = stack[i]
    BY <1>1, <1>2, <1>4
  <2> QED
    BY <1>4, <2>1, <2>2, SeqEqual
<1>6. FramesOf(new) = FramesOf(stack) \cup {frame}
  <2>1. ASSUME NEW i \in 1..Len(stack) PROVE stack[i] \in FramesOf(new)
    <3>1. i + 1 \in 1..Len(new) /\ new[i + 1] = stack[i]
      BY <1>1, <1>2
    <3> QED
      BY <3>1 DEF FramesOf
  <2>2. frame \in FramesOf(new)
    BY <1>1, <1>2 DEF FramesOf
  <2>3. ASSUME NEW i \in 1..Len(new)
        PROVE  new[i] \in FramesOf(stack) \cup {frame}
    <3>1. CASE i = 1
      BY <3>1, <1>1
    <3>2. CASE i # 1
      <4>1. i - 1 \in 1..Len(stack) /\ new[i] = stack[i - 1]
        BY <3>2, <1>1, <1>2
      <4> QED
        BY <4>1 DEF FramesOf
    <3> QED
      BY <3>1, <3>2
  <2> QED
    BY <2>1, <2>2, <2>3 DEF FramesOf
<1> QED
  BY <1>1, <1>3, <1>4, <1>5, <1>6 DEF new

(* An activation counts for one.                                           *)
LEMMA PushLooking ==
  ASSUME NEW stack \in Seq(Frame), NEW frame \in Frame
  PROVE  Cardinality(Looking(Push(stack, frame))) =
           Cardinality(Looking(stack)) + (IF Looks(frame) THEN 1 ELSE 0)
<1> DEFINE new == Push(stack, frame)
           above == {i \in 2..(Len(stack) + 1) : Looks(new[i])}
           up == [i \in Looking(stack) |-> i + 1]
<1>1. /\ new \in Seq(Frame)
      /\ Len(new) = Len(stack) + 1
      /\ new[1] = frame
      /\ \A i \in 2..(Len(stack) + 1) : new[i] = stack[i - 1]
  BY PushProperties
<1> HIDE DEF new
<1>2. Len(stack) \in Nat
  BY LenProperties
<1>3. up \in Bijection(Looking(stack), above)
  <2>1. up \in [Looking(stack) -> above]
    <3> SUFFICES ASSUME NEW i \in Looking(stack) PROVE i + 1 \in above
      OBVIOUS
    <3>1. i \in 1..Len(stack) /\ Looks(stack[i])
      BY DEF Looking
    <3>2. i + 1 \in 2..(Len(stack) + 1) /\ new[i + 1] = stack[i]
      BY <1>1, <1>2, <3>1
    <3> QED
      BY <3>1, <3>2
  <2>2. \A i, j \in Looking(stack) : up[i] = up[j] => i = j
    BY DEF Looking
  <2>3. ASSUME NEW k \in above PROVE \E i \in Looking(stack) : up[i] = k
    <3>1. k - 1 \in 1..Len(stack) /\ new[k] = stack[k - 1]
      BY <1>1, <1>2
    <3>2. k - 1 \in Looking(stack)
      BY <3>1 DEF Looking
    <3> QED
      BY <3>1, <3>2
  <2> HIDE DEF above, up
  <2> QED
    BY <2>1, <2>2, <2>3 DEF Bijection, Injection, Surjection, IsInjective
<1>4. ExistsBijection(Looking(stack), above)
  BY <1>3 DEF ExistsBijection
<1>5. IsFiniteSet(above) /\ Cardinality(above) = Cardinality(Looking(stack))
  BY <1>4, LookingFinite, FS_Bijection
<1>6. CASE Looks(frame)
  <2>1. Looking(new) = above \cup {1} /\ 1 \notin above
    BY <1>1, <1>2, <1>6 DEF Looking
  <2> QED
    BY <1>5, <1>6, <2>1, FS_AddElement DEF new
<1>7. CASE ~Looks(frame)
  <2>1. Looking(new) = above
    BY <1>1, <1>2, <1>7 DEF Looking
  <2> QED
    BY <1>5, <1>7, <2>1, LookingFinite DEF new
<1> QED
  BY <1>6, <1>7

(* The service's stack is its newest activation on what is below it.       *)
LEMMA TopOnTail ==
  ASSUME Inv, callStack # <<>>
  PROVE  /\ Top \in Frame
         /\ Tail(callStack) \in Seq(Frame)
         /\ callStack = Push(Tail(callStack), Top)
         /\ Below = FramesOf(Tail(callStack))
<1>1. Top \in Frame /\ Tail(callStack) \in Seq(Frame)
  BY SettledBelow
<1>2. callStack \in Seq(Frame)
  BY DEF Inv, TypeOK
<1>3. callStack = Push(Tail(callStack), Top)
  <2> DEFINE rest == Tail(callStack)
             first == Top
             stack == callStack
  <2>1. /\ rest \in Seq(Frame) /\ first \in Frame /\ stack \in Seq(Frame)
        /\ stack # <<>> /\ first = Head(stack) /\ rest = Tail(stack)
    BY <1>1, <1>2 DEF Top
  <2> HIDE DEF rest, first, stack
  <2>2. /\ first = stack[1]
        /\ Len(rest) = Len(stack) - 1
        /\ \A i \in 1..(Len(stack) - 1) : rest[i] = stack[i + 1]
    BY <2>1, PopProperties
  <2>3. /\ Push(rest, first) \in Seq(Frame)
        /\ Len(Push(rest, first)) = Len(rest) + 1
        /\ Push(rest, first)[1] = first
        /\ \A i \in 2..(Len(rest) + 1) : Push(rest, first)[i] = rest[i - 1]
    <3>1. rest \in Seq(Frame) /\ first \in Frame
      BY <2>1
    <3> QED
      BY ONLY <3>1, SMT DEF Push
  <2>4. Len(stack) \in Nat
    BY <2>1, LenProperties
  <2>5. Len(Push(rest, first)) = Len(stack)
    BY <2>2, <2>3, <2>4
  <2>6. ASSUME NEW i \in 1..Len(stack) PROVE Push(rest, first)[i] = stack[i]
    <3>1. CASE i = 1
      BY <3>1, <2>2, <2>3
    <3>2. CASE i # 1
      BY <3>2, <2>2, <2>3, <2>4
    <3> QED
      BY <3>1, <3>2
  <2>7. Push(rest, first) = stack
    BY <2>1, <2>3, <2>5, <2>6, SeqEqual
  <2> QED
    BY <2>7 DEF rest, first, stack
<1> QED
  BY <1>1, <1>3 DEF Below

(* The calls a folder has not returned from are the newest activation's.   *)
ActiveIs ==
  Active = inFlight \cup (IF InFolderCall THEN {CurrentOp} ELSE {})

LEMMA ActiveIsKnown == Inv => ActiveIs
<1> SUFFICES ASSUME Inv PROVE ActiveIs
  OBVIOUS
<1>1. callStack \in Seq(Frame) /\ DOMAIN callStack = 1..Len(callStack)
  BY LenProperties DEF Inv, TypeOK
<1> DEFINE calls == {i \in DOMAIN callStack : /\ callStack[i].op = "Copying"
                                              /\ ~callStack[i].notified}
<1>2. calls = IF InFolderCall THEN {1} ELSE {}
  <2>1. \A i \in calls : i = 1
    BY DEF Inv, CallsOK
  <2>2. callStack # <<>> => Top = callStack[1] /\ 1 \in DOMAIN callStack
    BY <1>1 DEF Top
  <2>3. callStack = <<>> => calls = {}
    BY <1>1
  <2>4. 1 \in calls <=> InFolderCall
    BY <2>2, <2>3 DEF InFolderCall, Running
  <2> QED
    BY <2>1, <2>4
<1>3. InFolderCall => Top = callStack[1]
  BY <1>1 DEF InFolderCall, Running, Top
<1>4. {<<callStack[i].r, callStack[i].s>> : i \in calls} =
        IF InFolderCall THEN {CurrentOp} ELSE {}
  BY <1>2, <1>3 DEF CurrentOp
<1> QED
  BY <1>4 DEF ActiveIs, Active

-----------------------------------------------------------------------------
(* Requests and the keys that name them.                                   *)

LEMMA ListedIsCreated ==
  ASSUME Inv, NEW q \in Request, Listed(q)
  PROVE  /\ req[q] # NotCreated
         /\ req[q] \in CopyRequest
         /\ req[q].dst \in Folder
<1>1. req[q] # NotCreated
  BY DEF Inv, StoppedOnce
<1>2. req[q] \in CopyRequest
  BY <1>1 DEF Inv, TypeOK
<1> QED
  BY <1>1, <1>2 DEF CopyRequest

(* Every position of the queue holds a listed request, another one each.   *)
LEMMA QueuePositions ==
  ASSUME Inv
  PROVE  /\ Len(m_copyRequests) \in Nat
         /\ DOMAIN m_copyRequests = 1..Len(m_copyRequests)
         /\ \A i \in 1..Len(m_copyRequests) :
              m_copyRequests[i] \in Request /\ Listed(m_copyRequests[i])
         /\ \A i, j \in 1..Len(m_copyRequests) :
              m_copyRequests[i] = m_copyRequests[j] => i = j
<1>1. m_copyRequests \in Seq(Request)
  BY DEF Inv, TypeOK
<1>2. Len(m_copyRequests) \in Nat /\ DOMAIN m_copyRequests = 1..Len(m_copyRequests)
  BY <1>1, LenProperties
<1>3. \A i \in 1..Len(m_copyRequests) : m_copyRequests[i] \in Request
  BY <1>1, ElementOfSeq
<1>4. \A i \in 1..Len(m_copyRequests) : Listed(m_copyRequests[i])
  BY <1>2 DEF Listed
<1>5. \A i, j \in DOMAIN m_copyRequests :
        m_copyRequests[i] = m_copyRequests[j] => i = j
  BY DEF Inv, StoppedOnce
<1> QED
  BY <1>2, <1>3, <1>4, <1>5

(* A single request has exactly one operation to wait for.                 *)
LEMMA SingleSource ==
  ASSUME Inv, NEW q \in Request, Listed(q), Single(req[q])
  PROVE  SourcesToCopy(q) = {OpOf(q)[2]}
<1>1. /\ req[q].type \in {"messages", "folders", "file"}
      /\ req[q].dst \in Folder
  BY ListedIsCreated DEF CopyRequest
<1>2. CASE req[q].type = "file" /\ req[q].sources = <<>>
  BY <1>2 DEF SourcesToCopy, OpOf
<1>3. CASE req[q].type = "file" /\ req[q].sources = <<NoFolder>>
  <2>1. NoFolder # req[q].dst
    BY <1>1, CopyAssumption
  <2>2. DOMAIN req[q].sources = {1} /\ req[q].sources[1] = NoFolder
    BY <1>3
  <2>3. req[q].sources # <<>>
    BY <1>3
  <2> QED
    BY <2>1, <2>2, <2>3 DEF SourcesToCopy, OpOf
<1>4. CASE req[q].type # "file"
  <2>1. req[q].sources = <<req[q].src>> /\ req[q].src # req[q].dst
    BY <1>1, <1>4 DEF Single
  <2>2. DOMAIN req[q].sources = {1} /\ req[q].sources[1] = req[q].src
    BY <2>1
  <2>3. req[q].sources # <<>>
    BY <2>1
  <2> QED
    BY <2>1, <2>2, <2>3 DEF SourcesToCopy, OpOf
<1> QED
  BY <1>1, <1>2, <1>3, <1>4 DEF Single

(* A genuine key gives the pair of the requests it matches.                *)
LEMMA MatchGivesPair ==
  ASSUME Inv, NEW q \in Request, Listed(q), NEW key, Genuine(key),
         Matches(q, key)
  PROVE  /\ req[q].src = key.src
         /\ req[q].dst = IF key.dst = NewFolder THEN key.parent ELSE key.dst
<1>1. req[q].dst \in Folder
  BY ListedIsCreated
<1>2. NoFolder \notin Folder /\ NewFolder \notin Folder
  BY CopyAssumption
<1>3. CASE req[q].type = "folders"
  BY <1>1, <1>2, <1>3 DEF Matches, SameSource, Genuine
<1>4. CASE req[q].type # "folders"
  BY <1>1, <1>2, <1>4 DEF Matches
<1> QED
  BY <1>3, <1>4

LEMMA MatchIsUnique ==
  ASSUME Inv, PairsOK, NEW key, Genuine(key),
         NEW q \in Request, Listed(q), Matches(q, key),
         NEW r \in Request, Listed(r), Matches(r, key)
  PROVE  q = r
<1>1. /\ req[q].src = key.src
      /\ req[q].dst = IF key.dst = NewFolder THEN key.parent ELSE key.dst
  BY MatchGivesPair
<1>2. /\ req[r].src = key.src
      /\ req[r].dst = IF key.dst = NewFolder THEN key.parent ELSE key.dst
  BY MatchGivesPair
<1> QED
  BY <1>1, <1>2 DEF PairsOK

(* FindRequest returns no request but the one that matches: names do not
   differ, so the variable it forgets to reset is never left set.          *)
LEMMA FoundMatches ==
  ASSUME Inv, SinglesOK, NEW key, Genuine(key),
         NEW i \in DOMAIN m_copyRequests, FindRequest(i, key)
  PROVE  Matches(m_copyRequests[i], key)
<1>1. /\ DOMAIN m_copyRequests = 1..Len(m_copyRequests)
      /\ \A j \in 1..Len(m_copyRequests) :
           m_copyRequests[j] \in Request /\ Listed(m_copyRequests[j])
  BY QueuePositions
<1>2. PICK r \in Request : r = m_copyRequests[i] /\ Listed(r)
  BY <1>1
<1> SUFFICES ASSUME ~Matches(r, key) PROVE FALSE
  BY <1>2
<1>3. req[r].type = "folders" /\ SameSource(r, key)
  BY <1>1, <1>2 DEF FindRequest
<1>4. req[r].src = key.src /\ req[r].dst = key.parent
  BY <1>3 DEF SameSource
<1>5. req[r].dst \in Folder
  BY <1>2, ListedIsCreated
<1>6. key.name = NameOf[key.src]
  BY <1>4, <1>5, CopyAssumption DEF Genuine
<1>7. req[r].dstName = NameOf[req[r].src]
  BY <1>2, <1>3 DEF SinglesOK, Single
<1> QED
  BY <1>3, <1>4, <1>6, <1>7 DEF Matches

(* The other way round: the position of the only match is found.           *)
LEMMA MatchIsFound ==
  ASSUME Inv, PairsOK, NEW key, Genuine(key),
         NEW i \in DOMAIN m_copyRequests, Matches(m_copyRequests[i], key)
  PROVE  FindRequest(i, key)
<1>1. /\ DOMAIN m_copyRequests = 1..Len(m_copyRequests)
      /\ Len(m_copyRequests) \in Nat
      /\ \A j \in 1..Len(m_copyRequests) :
           m_copyRequests[j] \in Request /\ Listed(m_copyRequests[j])
      /\ \A j, k \in 1..Len(m_copyRequests) :
           m_copyRequests[j] = m_copyRequests[k] => j = k
  BY QueuePositions
<1>2. ASSUME NEW j \in 1..(i - 1), Matches(m_copyRequests[j], key) PROVE FALSE
  <2>1. j \in 1..Len(m_copyRequests) /\ i \in 1..Len(m_copyRequests) /\ j # i
    BY <1>1
  <2>2. m_copyRequests[j] = m_copyRequests[i]
    BY <1>1, <1>2, <2>1, MatchIsUnique
  <2> QED
    BY <1>1, <2>1, <2>2
<1> QED
  BY <1>2 DEF FindRequest

(* The keys a folder may report an operation with are genuine, and match
   its request.                                                            *)
LEMMA KeyOfOperation ==
  ASSUME Ordinary, Inv, NEW q \in Request, Listed(q), Single(req[q]),
         NEW key \in CompletionKeys(OpOf(q))
  PROVE  key \in Key /\ Genuine(key) /\ Matches(q, key)
<1>1. /\ req[q].type \in {"messages", "folders", "file"}
      /\ req[q].dst \in Folder /\ req[q].src \in Folder \cup File
      /\ req[q].dstName \in Names \cup {NoName}
  BY ListedIsCreated DEF CopyRequest
<1>2. NewFolder \notin Folder
  BY CopyAssumption
<1>3. OpOf(q)[1] = q
  BY DEF OpOf
<1>4. CASE req[q].type = "folders"
  <2>1. key = [src |-> req[q].src, dst |-> NewFolder, parent |-> req[q].dst,
               name |-> req[q].dstName]
    BY <1>3, <1>4 DEF CompletionKeys, Ordinary
  <2>2. req[q].src \in Folder /\ req[q].dstName = NameOf[req[q].src]
    BY <1>4 DEF Single
  <2>3. NameOf[req[q].src] \in Names
    BY <2>2 DEF Names
  <2>4. key \in Key
    BY <1>1, <2>1, <2>2, <2>3 DEF Key
  <2> QED
    BY <1>4, <2>1, <2>2, <2>4 DEF Genuine, Matches, SameSource
<1>5. CASE req[q].type # "folders"
  <2>1. key = [src |-> IF req[q].type = "file" THEN req[q].src
                       ELSE req[q].sources[OpOf(q)[2]],
               dst |-> req[q].dst, parent |-> Parent[req[q].dst],
               name |-> NameOf[req[q].dst]]
    BY <1>3, <1>5 DEF CompletionKeys
  <2>2. req[q].type = "messages" => req[q].sources[OpOf(q)[2]] = req[q].src
    <3> SUFFICES ASSUME req[q].type = "messages"
                 PROVE  req[q].sources[OpOf(q)[2]] = req[q].src
      OBVIOUS
    <3>1. req[q].sources = <<req[q].src>>
      BY DEF Single
    <3>2. OpOf(q)[2] = 1
      BY <3>1 DEF OpOf
    <3> QED
      BY <3>1, <3>2
  <2>3. Parent[req[q].dst] = NoFolder /\ NameOf[req[q].dst] \in Names
    BY <1>1 DEF Ordinary, Names
  <2>4. /\ key.src = req[q].src /\ key.dst = req[q].dst
        /\ key.parent = NoFolder
    BY <1>1, <1>5, <2>1, <2>2, <2>3
  <2>5. key \in Key
    BY <1>1, <1>5, <2>1, <2>2, <2>3 DEF Key
  <2> QED
    BY <1>1, <1>2, <1>5, <2>4, <2>5 DEF Genuine, Matches
<1> QED
  BY <1>4, <1>5

-----------------------------------------------------------------------------
(* What a step leaves as it was.                                           *)

(* A request is still what it was submitted as.                            *)
Kept(q) ==
  /\ req'[q] # NotCreated
  /\ req'[q].type = req[q].type
  /\ req'[q].src = req[q].src
  /\ req'[q].dst = req[q].dst
  /\ req'[q].dstName = req[q].dstName
  /\ req'[q].sources = req[q].sources

AllKept == \A q \in Request : req[q] # NotCreated => Kept(q)
NoneAdded == \A q \in Request : Listed(q)' => Listed(q)
ProgressKept == \A q \in Request : Listed(q) => (Processed(q)' <=> Processed(q))

(* No frame is made false by the step.                                     *)
KeepsFrames == AllKept /\ NoneAdded /\ copied \subseteq copied'

LEMMA KeptFacts ==
  ASSUME NEW q \in Request, Kept(q)
  PROVE  /\ Single(req[q]) => Single(req'[q])
         /\ OpOf(q)' = OpOf(q)
         /\ SourcesToCopy(q)' = SourcesToCopy(q)
         /\ \A key : Matches(q, key)' <=> Matches(q, key)
<1>1. Single(req[q]) => Single(req'[q])
  BY DEF Kept, Single
<1>2. OpOf(q)' = OpOf(q)
  BY DEF Kept, OpOf
<1>3. SourcesToCopy(q)' = SourcesToCopy(q)
  BY DEF Kept, SourcesToCopy
<1>4. \A key : Matches(q, key)' <=> Matches(q, key)
  BY DEF Kept, Matches, SameSource
<1> QED
  BY <1>1, <1>2, <1>3, <1>4

LEMMA FrameKept ==
  ASSUME Inv, KeepsFrames, NEW frame \in Frame
  PROVE  /\ Spent(frame) => Spent(frame)'
         /\ Truthful(frame) => Truthful(frame)'
<1>1. Spent(frame) => Spent(frame)'
  <2> SUFFICES ASSUME frame.op = "NotifyCompletion", Genuine(frame.key),
                      \A r \in Request : Listed(r) => ~Matches(r, frame.key),
                      NEW q \in Request, Listed(q)'
               PROVE  ~Matches(q, frame.key)'
    BY DEF Spent, Genuine
  <2>1. Listed(q)
    BY DEF KeepsFrames, NoneAdded
  <2>2. Kept(q)
    BY <2>1, ListedIsCreated DEF KeepsFrames, AllKept
  <2>3. Matches(q, frame.key)' <=> Matches(q, frame.key)
    BY <2>2, KeptFacts
  <2> QED
    BY <2>1, <2>3
<1>2. Truthful(frame) => Truthful(frame)'
  <2> SUFFICES ASSUME Truthful(frame), frame.op = "OnStopCopy"
               PROVE  Truthful(frame)'
    BY DEF Truthful
  <2>1. frame.r \in Request
    BY DEF Frame
  <2>2. req[frame.r] # NotCreated
    BY DEF Truthful
  <2>3. Kept(frame.r)
    BY <2>1, <2>2 DEF KeepsFrames, AllKept
  <2>4. SourcesToCopy(frame.r)' = SourcesToCopy(frame.r)
    BY <2>1, <2>3, KeptFacts
  <2>5. req'[frame.r] # NotCreated
    BY <2>3 DEF Kept
  <2> QED
    BY <2>4, <2>5 DEF Truthful, KeepsFrames
<1> QED
  BY <1>1, <1>2

LEMMA NoneAddedKeeps ==
  ASSUME Inv, AllKept, NoneAdded, SinglesOK, PairsOK
  PROVE  SinglesOK' /\ PairsOK'
<1>1. ASSUME NEW q \in Request, Listed(q)'
      PROVE  Listed(q) /\ Kept(q) /\ Single(req'[q])
  <2>1. Listed(q)
    BY <1>1 DEF NoneAdded
  <2>2. Kept(q)
    BY <2>1, ListedIsCreated DEF AllKept
  <2>3. Single(req'[q])
    BY <2>1, <2>2, KeptFacts DEF SinglesOK
  <2> QED
    BY <2>1, <2>2, <2>3
<1>2. SinglesOK'
  BY <1>1 DEF SinglesOK, Single
<1>3. PairsOK'
  BY <1>1 DEF PairsOK, Kept
<1> QED
  BY <1>2, <1>3

(* On an unchanged queue, progress is all that could change its order or
   make a folder idle.                                                     *)
LEMMA SameQueue ==
  ASSUME Inv, AllKept, UNCHANGED m_copyRequests
  PROVE  /\ NoneAdded
         /\ \A q \in Request : Listed(q)' <=> Listed(q)
         /\ \A q, r \in Request :
              Older(q, r)' => Older(q, r) /\ Listed(q) /\ Listed(r)
         /\ \A q \in Request : Listed(q) => req'[q].dst = req[q].dst
<1>1. \A q \in Request : Listed(q)' <=> Listed(q)
  BY DEF Listed
<1>2. ASSUME NEW q \in Request, NEW r \in Request, Older(q, r)'
      PROVE  Older(q, r) /\ Listed(q) /\ Listed(r)
  <2>1. Older(q, r)
    BY <1>2 DEF Older
  <2>2. Listed(q) /\ Listed(r)
    BY <2>1, QueuePositions DEF Older, Listed
  <2> QED
    BY <2>1, <2>2
<1>3. ASSUME NEW q \in Request, Listed(q) PROVE req'[q].dst = req[q].dst
  BY <1>3, ListedIsCreated DEF AllKept, Kept
<1> QED
  BY <1>1, <1>2, <1>3 DEF NoneAdded

LEMMA NothingMoves ==
  ASSUME Inv, AllKept, ProgressKept, UNCHANGED m_copyRequests, FirstOK
  PROVE  FirstOK' /\ Idle' = Idle
<1>1. /\ \A q \in Request : Listed(q)' <=> Listed(q)
      /\ \A q, r \in Request :
           Older(q, r)' => Older(q, r) /\ Listed(q) /\ Listed(r)
      /\ \A q \in Request : Listed(q) => req'[q].dst = req[q].dst
  BY SameQueue
<1>2. FirstOK'
  BY <1>1 DEF FirstOK, ProgressKept
<1>3. Idle' = Idle
  <2>1. ASSUME NEW f \in Folder
        PROVE  /\ (\E r \in Request : Listed(r)' /\ req'[r].dst = f)
                    <=> \E r \in Request : Listed(r) /\ req[r].dst = f
               /\ (\A r \in Request : Listed(r)' /\ req'[r].dst = f => ~Processed(r)')
                    <=> \A r \in Request : Listed(r) /\ req[r].dst = f => ~Processed(r)
    BY <1>1 DEF ProgressKept
  <2> QED
    BY <2>1 DEF Idle
<1> QED
  BY <1>2, <1>3

(* A step that leaves every record alone keeps all of that.                *)
LEMMA SameRecords ==
  ASSUME Inv, UNCHANGED req
  PROVE  AllKept /\ ProgressKept
<1>1. AllKept
  BY DEF AllKept, Kept
<1>2. ProgressKept
  BY DEF ProgressKept, Processed, AllSourcesProcessed
<1> QED
  BY <1>1, <1>2

-----------------------------------------------------------------------------
(* What is on the stack after a step.                                      *)

LEMMA FramesOfTail ==
  ASSUME NEW stack \in Seq(Frame)
  PROVE  /\ FramesOf(stack) \subseteq Frame
         /\ stack # <<>> => /\ Head(stack) \in FramesOf(stack)
                            /\ FramesOf(Tail(stack)) \subseteq FramesOf(stack)
<1>1. \A i \in 1..Len(stack) : stack[i] \in Frame
  BY ElementOfSeq
<1>2. FramesOf(stack) \subseteq Frame
  BY <1>1 DEF FramesOf
<1>3. ASSUME stack # <<>>
      PROVE  /\ Head(stack) \in FramesOf(stack)
             /\ FramesOf(Tail(stack)) \subseteq FramesOf(stack)
  <2>1. /\ Head(stack) = stack[1] /\ 1 \in 1..Len(stack)
        /\ Len(Tail(stack)) = Len(stack) - 1
        /\ \A i \in 1..(Len(stack) - 1) : Tail(stack)[i] = stack[i + 1]
    BY <1>3, PopProperties
  <2>2. Len(stack) \in Nat
    BY LenProperties
  <2>3. ASSUME NEW i \in 1..Len(Tail(stack))
        PROVE  Tail(stack)[i] \in FramesOf(stack)
    <3>1. i + 1 \in 1..Len(stack) /\ Tail(stack)[i] = stack[i + 1]
      BY <2>1, <2>2
    <3> QED
      BY <3>1 DEF FramesOf
  <2> QED
    BY <2>1, <2>3 DEF FramesOf
<1> QED
  BY <1>2, <1>3

(* Nobody awaits a spent notification.                                     *)
LEMMA SpentIsNotAwaited ==
  ASSUME Running("NotifyCompletion") => Spent(Top)
  PROVE  /\ TopOK
         /\ \A r \in Request : Listed(r) => ~Completing(r)
         /\ ToBeIdle = 0
<1>1. \A r \in Request : Listed(r) => ~Completing(r)
  BY DEF Completing, Spent, Running
<1>2. TopOK
  BY <1>1 DEF TopOK, Spent, Running
<1> QED
  BY <1>1, <1>2 DEF ToBeIdle, Awaited

SpentTop == Running("NotifyCompletion") => Spent(Top)
NotAwaited == /\ TopOK
              /\ \A r \in Request : Listed(r) => ~Completing(r)
              /\ ToBeIdle = 0

LEMMA SpentTopStep == SpentTop' => NotAwaited'
<1>1. SpentTop => NotAwaited
  BY SpentIsNotAwaited DEF SpentTop, NotAwaited
<1> QED
  BY <1>1, PTL

LEMMA AfterPop ==
  ASSUME Inv, callStack # <<>>, callStack' = Tail(callStack), FramesOK, KeepsFrames
  PROVE  FramesOK' /\ NotAwaited'
<1> PICK rest \in Seq(Frame) : rest = Tail(callStack)
  BY TopOnTail
<1>1. Below = FramesOf(rest) /\ callStack' = rest
  BY TopOnTail
<1>2. FramesOf(rest) \subseteq Frame
  BY FramesOfTail
<1>3. \A frame \in FramesOf(rest) : Spent(frame)' /\ Truthful(frame)'
  BY <1>1, <1>2, FrameKept DEF FramesOK
<1>4. CASE rest = <<>>
  <2>1. FramesOK'
    BY <1>1, <1>4 DEF FramesOK, Below
  <2>2. SpentTop'
    BY <1>1, <1>4 DEF SpentTop, Running
  <2> QED
    BY <2>1, <2>2, SpentTopStep
<1>5. CASE rest # <<>>
  <2>1. /\ Head(rest) \in FramesOf(rest)
        /\ FramesOf(Tail(rest)) \subseteq FramesOf(rest)
    BY <1>5, FramesOfTail
  <2>2. Top' = Head(rest)
    BY <1>1 DEF Top
  <2>3. Below' = FramesOf(Tail(rest))
    BY <1>1, <1>5 DEF Below, FramesOf
  <2>4. Spent(Top)' /\ Truthful(Top)'
    BY <1>3, <2>1, <2>2 DEF Spent, Truthful
  <2>5. FramesOK'
    BY <1>3, <2>1, <2>3, <2>4 DEF FramesOK, Spent, Truthful
  <2>6. SpentTop'
    BY <2>4 DEF SpentTop
  <2> QED
    BY <2>5, <2>6, SpentTopStep
<1> QED
  BY <1>4, <1>5

LEMMA AfterPush ==
  ASSUME Inv, KeepsFrames, NEW stack \in Seq(Frame), NEW frame \in Frame,
         callStack' = Push(stack, frame),
         \A g \in FramesOf(stack) : Spent(g) /\ Truthful(g),
         Truthful(frame)'
  PROVE  FramesOK' /\ Top' = frame
<1>1. /\ callStack' # <<>> /\ Top' = frame
      /\ Below' = FramesOf(stack)
  <2> DEFINE new == Push(stack, frame)
  <2>1. new # <<>> /\ Head(new) = frame /\ Tail(new) = stack
    BY PushShape
  <2> HIDE DEF new
  <2>2. callStack' = new
    BY DEF new
  <2> QED
    BY <2>1, <2>2 DEF Top, Below, FramesOf
<1>2. \A g \in FramesOf(stack) : Spent(g)' /\ Truthful(g)'
  BY FramesOfTail, FrameKept
<1>3. Truthful(Top)'
  BY <1>1 DEF Truthful
<1>4. FramesOK'
  BY <1>1, <1>2, <1>3 DEF FramesOK, Spent, Truthful
<1> QED
  BY <1>1, <1>4

LEMMA PopLooking ==
  ASSUME Inv, callStack # <<>>
  PROVE  /\ Cardinality(Looking(Tail(callStack))) \in Nat
         /\ Cardinality(Looking(callStack)) \in Nat
         /\ Cardinality(Looking(callStack)) =
              Cardinality(Looking(Tail(callStack))) + (IF Looks(Top) THEN 1 ELSE 0)
<1> PICK rest \in Seq(Frame), first \in Frame :
      rest = Tail(callStack) /\ first = Top /\ callStack = Push(rest, first)
  BY TopOnTail
<1>1. Cardinality(Looking(Push(rest, first))) =
        Cardinality(Looking(rest)) + (IF Looks(first) THEN 1 ELSE 0)
  BY PushLooking
<1>2. Cardinality(Looking(rest)) \in Nat
  BY LookingFinite
<1> QED
  BY <1>1, <1>2

-----------------------------------------------------------------------------
(* Activations that return.                                                *)

(* Only the newest activation is a call that has not notified.             *)
LEMMA PopSettles ==
  ASSUME Inv, callStack # <<>>, callStack' = Tail(callStack), ActiveIs'
  PROVE  Active' = inFlight' /\ ~InFolderCall'
<1> PICK rest \in Seq(Frame) : rest = Tail(callStack) /\ Settled(rest)
  BY SettledBelow
<1>1. ASSUME rest # <<>> PROVE Head(rest).op = "Copying" => Head(rest).notified
  BY <1>1, PopProperties DEF Settled
<1>2. ~InFolderCall'
  BY <1>1 DEF InFolderCall, Running, Top
<1> QED
  BY <1>2 DEF ActiveIs

(* Outside NotifyCompletion no request waits to be matched.                *)
LEMMA NotCompleting ==
  ASSUME MatchInv, ~Running("NotifyCompletion")
  PROVE  /\ \A op \in copied : op[1] \in Request /\ req[op[1]] # NotCreated
                               /\ ~Listed(op[1])
         /\ EndsAreTold => \A r \in Request :
              Listed(r) /\ Processed(r) => OpOf(r) \in Active
         /\ ToBeIdle = 0
<1>1. \A r \in Request : ~Completing(r)
  BY DEF Completing
<1>2. \A op \in copied : op[1] \in Request
  BY DEF MatchInv, Inv, TypeOK
<1> QED
  BY <1>1, <1>2 DEF MatchInv, CopiedOK, BegunOK, ToBeIdle, Awaited

(* What is active stays listed and begun.                                  *)
LEMMA ActiveKept ==
  ASSUME MatchInv, AllKept, ProgressKept, UNCHANGED m_copyRequests,
         NEW a \in Active
  PROVE  /\ a[1] \in Request /\ Listed(a[1])
         /\ Listed(a[1])' /\ Processed(a[1])' /\ a = OpOf(a[1])'
<1>1. Listed(a[1]) /\ Processed(a[1]) /\ a = OpOf(a[1])
  BY DEF MatchInv, ActiveOK
<1>2. a[1] \in Request
  BY <1>1, QueuePositions DEF Listed, MatchInv
<1>3. Kept(a[1])
  BY <1>1, <1>2, ListedIsCreated DEF AllKept, MatchInv
<1>4. OpOf(a[1])' = OpOf(a[1])
  BY <1>2, <1>3, KeptFacts
<1>5. Listed(a[1])'
  BY <1>1 DEF Listed
<1> QED
  BY <1>1, <1>2, <1>4, <1>5 DEF ProgressKept

LEMMA PopStep ==
  ASSUME MatchInv, Inv', ActiveIs',
         callStack # <<>>, callStack' = Tail(callStack),
         UNCHANGED <<m_copyRequests, req, copied>>,
         ~Running("NotifyCompletion"), ~Looks(Top),
         inFlight' \subseteq Active,
         EndsAreTold => inFlight' = Active
  PROVE  MatchInv'
<1>1. AllKept /\ ProgressKept
  BY SameRecords DEF MatchInv
<1>2. NoneAdded /\ \A q \in Request : Listed(q)' <=> Listed(q)
  BY <1>1, SameQueue DEF MatchInv
<1>3. SinglesOK' /\ PairsOK'
  BY <1>1, <1>2, NoneAddedKeeps DEF MatchInv
<1>4. FirstOK' /\ Idle' = Idle
  BY <1>1, NothingMoves DEF MatchInv
<1>5. Active' = inFlight' /\ ~InFolderCall'
  BY PopSettles DEF MatchInv
<1>6. ActiveOK'
  <2>1. \A a \in Active' : Listed(a[1])' /\ Processed(a[1])' /\ a = OpOf(a[1])'
    BY <1>1, <1>5, ActiveKept
  <2> QED
    BY <2>1, <1>5 DEF ActiveOK
<1>7. FramesOK' /\ NotAwaited'
  BY <1>1, <1>2, AfterPop DEF MatchInv, KeepsFrames
<1>8. TopOK' /\ ToBeIdle' = 0 /\ \A r \in Request : Listed(r)' => ~Completing(r)'
  BY <1>7 DEF NotAwaited
<1>9. CopiedOK'
  BY <1>2, NotCompleting DEF CopiedOK
<1>10. BegunOK'
  <2> SUFFICES ASSUME EndsAreTold, NEW r \in Request, Listed(r)', Processed(r)'
               PROVE  OpOf(r)' \in Active'
    BY DEF BegunOK, EndsAreTold
  <2>1. Listed(r) /\ Processed(r)
    BY <1>1, <1>2 DEF ProgressKept
  <2>2. OpOf(r) \in Active
    BY <2>1, NotCompleting
  <2>3. OpOf(r)' = OpOf(r)
    BY DEF OpOf
  <2> QED
    BY <1>5, <2>2, <2>3
<1>11. IdleOK'
  <2>1. Cardinality(Looking(Tail(callStack))) = Cardinality(Looking(callStack))
    BY PopLooking DEF MatchInv
  <2>2. Looking(callStack)' = Looking(Tail(callStack))
    BY DEF Looking, Looks
  <2>3. ToBeIdle = 0
    BY NotCompleting
  <2> QED
    BY <1>4, <1>8, <2>1, <2>2, <2>3 DEF MatchInv, IdleOK, EndsAreTold
<1> QED
  BY <1>3, <1>4, <1>6, <1>7, <1>8, <1>9, <1>10, <1>11 DEF MatchInv

LEMMA OnStopCopyReturnsStep ==
  ASSUME MatchInv, Inv', ActiveIs', OnStopCopyReturns
  PROVE  MatchInv'
<1>1. callStack # <<>> /\ Top.op = "OnStopCopy"
  BY DEF OnStopCopyReturns, Running
<1>2. ~Running("NotifyCompletion") /\ ~Looks(Top) /\ ~InFolderCall
  BY <1>1 DEF Running, Looks, InFolderCall
<1>3. Active = inFlight
  BY <1>2, ActiveIsKnown DEF MatchInv, ActiveIs
<1> QED
  BY <1>1, <1>2, <1>3, PopStep DEF OnStopCopyReturns

LEMMA FolderCallReturnsStep ==
  ASSUME MatchInv, Inv', ActiveIs', FolderCallReturns
  PROVE  MatchInv'
<1>1. callStack # <<>> /\ Top.op = "Copying" /\ Top.notified
  BY DEF FolderCallReturns, Running
<1>2. ~Running("NotifyCompletion") /\ ~Looks(Top) /\ ~InFolderCall
  BY <1>1 DEF Running, Looks, InFolderCall
<1>3. Active = inFlight
  BY <1>2, ActiveIsKnown DEF MatchInv, ActiveIs
<1> QED
  BY <1>1, <1>2, <1>3, PopStep DEF FolderCallReturns

LEMMA FolderWorksOnStep ==
  ASSUME MatchInv, Inv', ActiveIs', FolderWorksOn
  PROVE  MatchInv'
<1>1. callStack # <<>> /\ Top.op = "Copying" /\ InFolderCall
  BY DEF FolderWorksOn, InFolderCall, Running
<1>2. ~Running("NotifyCompletion") /\ ~Looks(Top)
  BY <1>1 DEF Running, Looks
<1>3. inFlight' = Active
  BY <1>1, ActiveIsKnown DEF MatchInv, ActiveIs, FolderWorksOn
<1> QED
  BY <1>1, <1>2, <1>3, PopStep DEF FolderWorksOn

LEMMA FolderFailsSilentlyStep ==
  ASSUME MatchInv, Inv', ActiveIs', FolderFailsSilently
  PROVE  MatchInv'
<1>1. callStack # <<>> /\ Top.op = "Copying" /\ InFolderCall
  BY DEF FolderFailsSilently, InFolderCall, Running
<1>2. ~Running("NotifyCompletion") /\ ~Looks(Top)
  BY <1>1 DEF Running, Looks
<1>3. inFlight' \subseteq Active
  BY ActiveIsKnown DEF MatchInv, ActiveIs, FolderFailsSilently
<1>4. ~EndsAreTold
  BY DEF EndsAreTold, FolderFailsSilently
<1> QED
  BY <1>1, <1>2, <1>3, <1>4, PopStep DEF FolderFailsSilently

-----------------------------------------------------------------------------
(* Notifications.                                                          *)

(* A folder notifies the service of an operation it worked on: the key it
   gives matches that operation's request and no other.                    *)
LEMMA NotifyStep ==
  ASSUME Ordinary, MatchInv, Inv', ActiveIs',
         NEW op \in Active, NEW ok \in BOOLEAN, NEW stack \in Seq(Frame),
         ~Running("NotifyCompletion"),
         Notify(op, ok, stack),
         UNCHANGED <<m_copyRequests, req>>,
         \A g \in FramesOf(stack) : Spent(g) /\ Truthful(g),
         Cardinality(Looking(stack)) = Cardinality(Looking(callStack)),
         inFlight' = Active \ {op}
  PROVE  MatchInv'
<1>1. AllKept /\ ProgressKept
  BY SameRecords DEF MatchInv
<1>2. NoneAdded /\ \A q \in Request : Listed(q)' <=> Listed(q)
  BY <1>1, SameQueue DEF MatchInv
<1>3. SinglesOK' /\ PairsOK'
  BY <1>1, <1>2, NoneAddedKeeps DEF MatchInv
<1>4. FirstOK' /\ Idle' = Idle
  BY <1>1, NothingMoves DEF MatchInv
<1>5. PICK q \in Request : /\ Listed(q) /\ Processed(q) /\ op = OpOf(q)
                           /\ q = op[1]
  <2>1. op[1] \in Request
    BY <1>1, ActiveKept
  <2> QED
    BY <2>1 DEF MatchInv, ActiveOK
<1>6. Single(req[q])
  BY <1>5 DEF MatchInv, SinglesOK
<1>7. PICK key \in CompletionKeys(op) :
        callStack' = Push(stack, [op |-> "NotifyCompletion", key |-> key,
                                  ok |-> ok, num |-> Len(m_copyRequests)])
  BY DEF Notify
<1>8. key \in Key /\ Genuine(key) /\ Matches(q, key)
  BY <1>5, <1>6, <1>7, KeyOfOperation DEF MatchInv
<1>9. Len(m_copyRequests) \in Nat
  BY QueuePositions DEF MatchInv
<1>10. PICK f : f = [op |-> "NotifyCompletion", key |-> key, ok |-> ok,
                    num |-> Len(m_copyRequests)]
  OBVIOUS
<1>23. f \in Frame
  <2>1. f \in [op : {"NotifyCompletion"}, key : Key, ok : BOOLEAN, num : Int]
    BY <1>8, <1>9, <1>10
  <2> QED
    BY <2>1 DEF Frame
<1>11. /\ f.op = "NotifyCompletion" /\ f.key = key /\ f.ok = ok
       /\ f.num = Len(m_copyRequests)
  BY <1>10
<1>12. callStack' = Push(stack, f)
  BY <1>7, <1>10
<1>13. KeepsFrames
  BY <1>1, <1>2 DEF KeepsFrames, Notify
<1>14. FramesOK' /\ Top' = f
  BY <1>11, <1>12, <1>13, <1>23, AfterPush DEF MatchInv, Truthful
<1>15. callStack' # <<>>
  BY <1>12, <1>23, PushShape
<1>16. Active' = Active \ {op} /\ ~InFolderCall'
  BY <1>11, <1>14 DEF InFolderCall, Running, ActiveIs
<1>17. ASSUME NEW r \in Request, Listed(r)
       PROVE  /\ Completing(r)' <=> r = q
              /\ Processed(r)' <=> Processed(r)
              /\ OpOf(r)' = OpOf(r)
  <2>1. Kept(r)
    BY <1>1, <1>17, ListedIsCreated DEF AllKept, MatchInv
  <2>2. Matches(r, key)' <=> Matches(r, key)
    BY <2>1, KeptFacts
  <2>3. Matches(r, key) => r = q
    BY <1>5, <1>8, <1>17, MatchIsUnique DEF MatchInv
  <2>4. Completing(r)' <=> Matches(r, key)'
    BY <1>11, <1>14, <1>15 DEF Completing, Running, Matches, SameSource
  <2>5. OpOf(r)' = OpOf(r)
    BY <2>1, KeptFacts
  <2> QED
    BY <1>1, <1>8, <1>17, <2>2, <2>3, <2>4, <2>5 DEF ProgressKept
<1>18. ActiveOK'
  <2>1. \A a \in Active' : Listed(a[1])' /\ Processed(a[1])' /\ a = OpOf(a[1])'
    BY <1>1, <1>16, ActiveKept
  <2> QED
    BY <2>1, <1>16 DEF ActiveOK
<1>19. TopOK'
  <2>1. Genuine(Top.key)'
    BY <1>8, <1>11, <1>14 DEF Genuine
  <2>2. ASSUME NEW r \in Request, Listed(r)', Completing(r)'
        PROVE  /\ Top'.num = Len(m_copyRequests)'
               /\ Processed(r)' /\ OpOf(r)' \notin Active'
               /\ Top'.ok => OpOf(r)' \in copied'
    <3>1. r = q
      BY <1>2, <1>17, <2>2
    <3>2. OpOf(r)' = op /\ Processed(r)'
      BY <1>5, <1>17, <3>1
    <3> QED
      BY <1>11, <1>14, <1>16, <3>2 DEF Notify
  <2> QED
    BY <2>1, <2>2 DEF TopOK
<1>20. CopiedOK'
  <2> SUFFICES ASSUME NEW c \in copied'
               PROVE  req'[c[1]] # NotCreated /\ (Listed(c[1])' => Completing(c[1])')
    BY DEF CopiedOK
  <2>1. CASE c \in copied
    BY <1>2, <2>1, NotCompleting
  <2>2. CASE c \notin copied
    <3>1. c[1] = q
      BY <1>5, <2>2 DEF Notify
    <3>2. req[q] # NotCreated
      BY <1>5, ListedIsCreated DEF MatchInv
    <3> QED
      BY <1>5, <1>17, <3>1, <3>2
  <2> QED
    BY <2>1, <2>2
<1>21. BegunOK'
  <2> SUFFICES ASSUME EndsAreTold, NEW r \in Request, Listed(r)', Processed(r)'
               PROVE  OpOf(r)' \in Active' \/ Completing(r)'
    BY DEF BegunOK, EndsAreTold
  <2>1. Listed(r) /\ Processed(r) /\ OpOf(r)' = OpOf(r)
    BY <1>2, <1>17
  <2>2. OpOf(r) \in Active
    BY <2>1, NotCompleting
  <2>3. OpOf(r) = op => r = q
    BY <1>5 DEF OpOf
  <2> QED
    BY <1>16, <1>17, <2>1, <2>2, <2>3
<1>22. IdleOK'
  <2>1. Cardinality(Looking(Push(stack, f))) = Cardinality(Looking(stack)) + 1
    BY <1>11, <1>23, PushLooking DEF Looks
  <2>2. Looking(callStack)' = Looking(Push(stack, f))
    BY <1>12 DEF Looking, Looks
  <2>3. ToBeIdle = 0 /\ ToBeIdle' \in {0, 1}
    BY NotCompleting DEF ToBeIdle
  <2>4. Cardinality(Looking(stack)) \in Nat
    BY LookingFinite
  <2> SUFFICES ASSUME EndsAreTold
               PROVE  /\ IsFiniteSet(Idle)'
                      /\ Cardinality(Idle)' + ToBeIdle'
                           <= Cardinality(Looking(callStack))'
    BY DEF IdleOK, EndsAreTold
  <2>5. IsFiniteSet(Idle) /\ Cardinality(Idle) <= Cardinality(Looking(callStack))
    <3>1. IsFiniteSet(Idle)
      BY DEF MatchInv, IdleOK
    <3>2. Cardinality(Idle) \in Nat
      BY <3>1, FS_CardinalityType
    <3>3. Cardinality(Idle) + 0 <= Cardinality(Looking(callStack))
      BY <2>3 DEF MatchInv, IdleOK
    <3> QED
      BY <3>1, <3>2, <3>3
  <2>6. Cardinality(Idle) \in Nat
    BY <2>5, FS_CardinalityType
  <2> QED
    BY <1>4, <2>1, <2>2, <2>3, <2>4, <2>5, <2>6
<1> QED
  BY <1>3, <1>4, <1>14, <1>18, <1>19, <1>20, <1>21, <1>22 DEF MatchInv

LEMMA FolderNotifiesAtOnceStep ==
  ASSUME Ordinary, MatchInv, Inv', ActiveIs', FolderNotifiesAtOnce
  PROVE  MatchInv'
<1>1. callStack # <<>> /\ Top.op = "Copying" /\ InFolderCall
  BY DEF FolderNotifiesAtOnce, InFolderCall, Running
<1>2. /\ Top \in Frame /\ Tail(callStack) \in Seq(Frame)
      /\ Below = FramesOf(Tail(callStack))
  BY <1>1, TopOnTail DEF MatchInv
<1>3. PICK g \in Frame : g = [Top EXCEPT !.notified = TRUE] /\ g.op = "Copying"
  <2>1. Top \in [op : {"Copying"}, r : Request, s : Nat, notified : BOOLEAN]
    BY <1>1, <1>2 DEF Frame
  <2>2. [Top EXCEPT !.notified = TRUE]
          \in [op : {"Copying"}, r : Request, s : Nat, notified : BOOLEAN]
    BY <2>1
  <2>3. [Top EXCEPT !.notified = TRUE].op = "Copying"
    BY <2>2
  <2>4. [Top EXCEPT !.notified = TRUE] \in Frame
    BY <2>2 DEF Frame
  <2> QED
    BY <2>3, <2>4
<1>4. PICK rest \in Seq(Frame) : rest = Tail(callStack)
  BY <1>2
<1>5. PICK stack \in Seq(Frame) : stack = Push(rest, g)
  BY PushShape
<1>6. PICK ok \in BOOLEAN : Notify(CurrentOp, ok, stack)
  BY <1>3, <1>4, <1>5 DEF FolderNotifiesAtOnce
<1>7. \A h \in FramesOf(stack) : Spent(h) /\ Truthful(h)
  <2>1. FramesOf(stack) = FramesOf(rest) \cup {g}
    BY <1>5, PushShape
  <2>2. \A h \in FramesOf(rest) : Spent(h) /\ Truthful(h)
    BY <1>2, <1>4 DEF MatchInv, FramesOK
  <2> QED
    BY <1>3, <2>1, <2>2 DEF Spent, Truthful
<1>8. Cardinality(Looking(stack)) = Cardinality(Looking(callStack))
  <2>1. Cardinality(Looking(Push(rest, g))) = Cardinality(Looking(rest)) + 0
    BY <1>3, PushLooking DEF Looks
  <2>2. Cardinality(Looking(callStack)) = Cardinality(Looking(rest)) + 0
    BY <1>1, <1>4, PopLooking DEF Looks, MatchInv
  <2> QED
    BY <1>5, <2>1, <2>2
<1>9. CurrentOp \in Active /\ inFlight' = Active \ {CurrentOp}
  <2>1. Active = inFlight \cup {CurrentOp}
    BY <1>1, ActiveIsKnown DEF MatchInv, ActiveIs
  <2>2. CurrentOp \notin inFlight
    BY <1>1 DEF MatchInv, ActiveOK
  <2> QED
    BY <2>1, <2>2 DEF FolderNotifiesAtOnce
<1>10. ~Running("NotifyCompletion")
  BY <1>1 DEF Running
<1>11. PICK op \in Active : op = CurrentOp
  BY <1>9
<1>12. Notify(op, ok, stack) /\ inFlight' = Active \ {op}
  BY <1>6, <1>9, <1>11
<1>13. UNCHANGED <<m_copyRequests, req>>
  BY DEF FolderNotifiesAtOnce
<1> QED
  BY <1>7, <1>8, <1>10, <1>12, <1>13, NotifyStep

LEMMA FolderNotifiesStep ==
  ASSUME Ordinary, MatchInv, Inv', ActiveIs',
         NEW op \in inFlight, FolderNotifies(op)
  PROVE  MatchInv'
<1>1. callStack = <<>> /\ callStack \in Seq(Frame)
  BY DEF FolderNotifies, MatchInv, Inv, TypeOK
<1>2. ~InFolderCall /\ ~Running("NotifyCompletion")
  BY <1>1 DEF InFolderCall, Running
<1>3. Active = inFlight
  BY <1>2, ActiveIsKnown DEF MatchInv, ActiveIs
<1>4. op \in Active /\ inFlight' = Active \ {op}
  BY <1>3 DEF FolderNotifies
<1>5. FramesOf(callStack) = {}
  BY <1>1 DEF FramesOf
<1>6. PICK ok \in BOOLEAN : Notify(op, ok, callStack)
  BY DEF FolderNotifies
<1>7. UNCHANGED <<m_copyRequests, req>>
  BY DEF FolderNotifies
<1>8. PICK stack \in Seq(Frame) : stack = callStack
  BY <1>1
<1>9. /\ Notify(op, ok, stack)
      /\ \A g \in FramesOf(stack) : Spent(g) /\ Truthful(g)
      /\ Cardinality(Looking(stack)) = Cardinality(Looking(callStack))
  BY <1>5, <1>6, <1>8
<1> QED
  BY <1>2, <1>4, <1>7, <1>9, NotifyStep

-----------------------------------------------------------------------------
(* Requests that leave the queue.                                          *)

LEMMA ClearedQueue ==
  ASSUME Inv, NEW r \in Request, Listed(r),
         m_copyRequests' = RemoveFirst(m_copyRequests, r)
  PROVE  /\ \A q \in Request : Listed(q)' <=> (Listed(q) /\ q # r)
         /\ \A p, q \in Request : Older(p, q)' => Older(p, q)
<1>1. PICK old \in Seq(Request) : old = m_copyRequests
  BY DEF Inv, TypeOK
<1>2. /\ Len(old) \in Nat
      /\ \A i, j \in 1..Len(old) : old[i] = old[j] => i = j
      /\ DOMAIN old = 1..Len(old)
  BY <1>1, QueuePositions
<1>3. PICK k \in 1..Len(old) : old[k] = r
  BY <1>1, <1>2 DEF Listed
<1>4. PICK left : left = RemoveFirst(old, old[k])
  OBVIOUS
<1>5. m_copyRequests' = left
  BY <1>1, <1>3, <1>4, Zenon
<1>6. /\ left \in Seq(Request)
      /\ Len(left) = Len(old) - 1
      /\ \A i \in 1..(Len(old) - 1) :
           left[i] = IF i < k THEN old[i] ELSE old[i + 1]
  <2>1. left \in Seq(Request) /\ IsWithout(left, old, k)
    BY <1>2, <1>4, RemoveFirstElements
  <2> QED
    BY <2>1 DEF IsWithout
<1>7. /\ \A i \in 1..(Len(old) - 1) : left[i] # old[k]
      /\ \A i \in 1..(Len(old) - 1) : \E j \in 1..Len(old) : left[i] = old[j]
      /\ \A j \in 1..Len(old) : j # k =>
           \E i \in 1..(Len(old) - 1) : left[i] = old[j]
  <2>1. IsWithout(left, old, k)
    BY <1>2, <1>4, RemoveFirstElements
  <2> QED
    BY <2>1 DEF IsWithout
<1>8. DOMAIN left = 1..(Len(old) - 1)
  BY <1>6, LenProperties
<1>9. ASSUME NEW q \in Request PROVE Listed(q)' <=> (Listed(q) /\ q # r)
  <2>1. Listed(q)' <=> \E i \in 1..(Len(old) - 1) : left[i] = q
    BY <1>5, <1>8 DEF Listed
  <2>2. Listed(q) <=> \E j \in 1..Len(old) : old[j] = q
    BY <1>1, <1>2 DEF Listed
  <2> QED
    BY <1>3, <1>7, <2>1, <2>2
<1>10. ASSUME NEW p \in Request, NEW q \in Request, Older(p, q)'
       PROVE  Older(p, q)
  <2>1. \E i \in 1..Len(left) : \E j \in 1..(i - 1) : left[j] = p /\ left[i] = q
    BY <1>5, <1>10 DEF Older
  <2>3. PICK i \in 1..Len(left) : \E j \in 1..(i - 1) : left[j] = p /\ left[i] = q
    BY <2>1
  <2>4. PICK j \in 1..(i - 1) : left[j] = p /\ left[i] = q
    BY <2>3
  <2> DEFINE at(n) == IF n < k THEN n ELSE n + 1
  <2>2. /\ at(i) \in 1..Len(old) /\ at(j) \in 1..(at(i) - 1)
        /\ old[at(i)] = left[i] /\ old[at(j)] = left[j]
    BY <1>2, <1>6
  <2> HIDE DEF at
  <2> QED
    BY <1>1, <2>4, <2>2 DEF Older
<1> QED
  BY <1>9, <1>10

LEMMA ClearedKeeps ==
  ASSUME MatchInv, NEW r \in Request, Listed(r),
         m_copyRequests' = RemoveFirst(m_copyRequests, r), UNCHANGED req
  PROVE  /\ AllKept /\ NoneAdded
         /\ SinglesOK' /\ PairsOK' /\ FirstOK'
         /\ Idle' \subseteq Idle \cup {req[r].dst}
         /\ \A q \in Request : /\ Listed(q)' <=> (Listed(q) /\ q # r)
                               /\ Processed(q)' <=> Processed(q)
                               /\ OpOf(q)' = OpOf(q)
<1>1. /\ \A q \in Request : Listed(q)' <=> (Listed(q) /\ q # r)
      /\ \A p, q \in Request : Older(p, q)' => Older(p, q)
  BY ClearedQueue DEF MatchInv
<1>2. AllKept /\ NoneAdded
  BY <1>1, SameRecords DEF MatchInv, NoneAdded
<1>3. SinglesOK' /\ PairsOK'
  BY <1>2, NoneAddedKeeps DEF MatchInv
<1>4. \A q \in Request : /\ Processed(q)' <=> Processed(q)
                         /\ OpOf(q)' = OpOf(q)
  BY DEF Processed, AllSourcesProcessed, OpOf
<1>5. FirstOK'
  BY <1>1, <1>4 DEF MatchInv, FirstOK
<1>6. ASSUME NEW f \in Folder, f # req[r].dst, f \in Idle' PROVE f \in Idle
  BY <1>1, <1>4, <1>6 DEF Idle
<1>7. Idle' \subseteq Folder
  BY DEF Idle
<1> QED
  BY <1>1, <1>2, <1>3, <1>4, <1>5, <1>6, <1>7

(* NotifyCompletion finds the one request its key matches and clears it.   *)
LEMMA ClearsTheMatch ==
  ASSUME MatchInv, Running("NotifyCompletion"),
         NEW i \in DOMAIN m_copyRequests, ToClear(i),
         NEW r, r = m_copyRequests[i]
  PROVE  /\ r \in Request /\ Listed(r) /\ Completing(r)
         /\ Top.num = Len(m_copyRequests)
         /\ Processed(r) /\ OpOf(r) \notin Active
         /\ Top.ok => OpOf(r) \in copied
<1>1. Genuine(Top.key)
  BY DEF MatchInv, TopOK
<1>2. PICK key : key = Top.key
  OBVIOUS
<1>3. Matches(r, key)
  BY <1>1, <1>2, FoundMatches DEF ToClear, MatchInv
<1>4. r \in Request /\ Listed(r)
  BY QueuePositions DEF MatchInv
<1>5. Completing(r)
  BY <1>2, <1>3 DEF Completing
<1> QED
  BY <1>4, <1>5 DEF MatchInv, TopOK

LEMMA NotifyCompletionClearsStep ==
  ASSUME MatchInv, Inv', ActiveIs', Running("NotifyCompletion"),
         NotifyCompletionClears, UNCHANGED <<req, starts, inFlight, copied, alive>>
  PROVE  MatchInv'
<1>1. callStack # <<>> /\ Top.op = "NotifyCompletion"
  BY DEF Running
<1>2. /\ Top \in Frame /\ Tail(callStack) \in Seq(Frame)
      /\ Below = FramesOf(Tail(callStack))
  BY <1>1, TopOnTail DEF MatchInv
<1>3. PICK i \in DOMAIN m_copyRequests :
        /\ ToClear(i)
        /\ ClearRequest(m_copyRequests[i], Top.ok,
                        Push(Tail(callStack), [Top EXCEPT !.num = @ - 1]))
  BY DEF NotifyCompletionClears
<1>4. PICK r : r = m_copyRequests[i]
  OBVIOUS
<1>5. /\ r \in Request /\ Listed(r) /\ Completing(r)
      /\ Top.num = Len(m_copyRequests)
      /\ Processed(r) /\ OpOf(r) \notin Active
      /\ Top.ok => OpOf(r) \in copied
  BY <1>3, <1>4, ClearsTheMatch
<1>6. PICK key, ok : key = Top.key /\ ok = Top.ok
  OBVIOUS
<1>7. Genuine(key) /\ Matches(r, key)
  BY <1>1, <1>5, <1>6 DEF MatchInv, TopOK, Completing, Running
<1>8. PICK g : g = [Top EXCEPT !.num = @ - 1]
  OBVIOUS
<1>9. g \in Frame /\ g.op = "NotifyCompletion" /\ g.key = key
  <2>1. Top \in [op : {"NotifyCompletion"}, key : Key, ok : BOOLEAN, num : Int]
    BY <1>1, <1>2 DEF Frame
  <2>2. /\ g \in [op : {"NotifyCompletion"}, key : Key, ok : BOOLEAN, num : Int]
        /\ g.key = Top.key
    BY <1>8, <2>1
  <2> QED
    BY <1>6, <2>2 DEF Frame
<1>10. PICK h : h = [op |-> "OnStopCopy", r |-> r, ok |-> ok]
  OBVIOUS
<1>11. h \in Frame /\ h.op = "OnStopCopy" /\ h.r = r /\ h.ok = ok
  <2>1. ok \in BOOLEAN
    BY <1>1, <1>2, <1>6 DEF Frame
  <2>2. h \in [op : {"OnStopCopy"}, r : Request, ok : BOOLEAN]
    BY <1>5, <1>10, <2>1
  <2> QED
    BY <1>10, <2>2 DEF Frame
<1>12. PICK rest \in Seq(Frame) : rest = Tail(callStack)
  BY <1>2
<1>13. PICK stack \in Seq(Frame) : stack = Push(rest, g)
  BY <1>9, PushShape
<1>14. /\ m_copyRequests' = RemoveFirst(m_copyRequests, r)
       /\ callStack' = Push(stack, h)
  BY <1>3, <1>4, <1>6, <1>8, <1>10, <1>12, <1>13 DEF ClearRequest
<1>15. /\ AllKept /\ NoneAdded
       /\ SinglesOK' /\ PairsOK' /\ FirstOK'
       /\ Idle' \subseteq Idle \cup {req[r].dst}
       /\ \A q \in Request : /\ Listed(q)' <=> (Listed(q) /\ q # r)
                             /\ Processed(q)' <=> Processed(q)
                             /\ OpOf(q)' = OpOf(q)
  BY <1>5, <1>14, ClearedKeeps
<1>16. KeepsFrames
  BY <1>15 DEF KeepsFrames
<1>17. \A q \in Request : Listed(q) /\ Completing(q) => q = r
  <2> SUFFICES ASSUME NEW q \in Request, Listed(q), Completing(q) PROVE q = r
    OBVIOUS
  <2>1. Matches(q, key)
    BY <1>6 DEF Completing
  <2> QED
    BY <1>5, <1>7, <2>1, MatchIsUnique DEF MatchInv
<1>18. Active = inFlight /\ Active' = inFlight /\ ~InFolderCall'
  <2>1. ~InFolderCall
    BY <1>1 DEF InFolderCall, Running
  <2>2. Active = inFlight
    BY <2>1, ActiveIsKnown DEF MatchInv, ActiveIs
  <2>3. callStack' # <<>> /\ Top' = h
    <3>1. Push(stack, h) # <<>> /\ Head(Push(stack, h)) = h
      BY <1>11, PushShape
    <3> QED
      BY <1>14, <3>1 DEF Top
  <2>4. ~InFolderCall'
    BY <1>11, <2>3 DEF InFolderCall, Running
  <2> QED
    BY <2>2, <2>4 DEF ActiveIs
<1>19. FramesOK' /\ Top' = h
  <2>1. /\ Below' = FramesOf(stack) /\ Top' = h /\ callStack' # <<>>
    <3>1. /\ Push(stack, h) # <<>> /\ Head(Push(stack, h)) = h
          /\ Tail(Push(stack, h)) = stack
      BY <1>11, PushShape
    <3> QED
      BY <1>14, <3>1 DEF Top, Below, FramesOf
  <2>2. FramesOf(stack) = FramesOf(rest) \cup {g}
    BY <1>9, <1>13, PushShape
  <2>3. \A f \in FramesOf(rest) : Spent(f)' /\ Truthful(f)'
    <3>1. FramesOf(rest) \subseteq Frame
      BY FramesOfTail
    <3>2. \A f \in FramesOf(rest) : Spent(f) /\ Truthful(f)
      BY <1>2, <1>12 DEF MatchInv, FramesOK
    <3> QED
      BY <1>16, <3>1, <3>2, FrameKept DEF MatchInv
  <2>4. Spent(g)'
    <3> SUFFICES ASSUME NEW q \in Request, Listed(q)' PROVE ~Matches(q, key)'
      BY <1>7, <1>9 DEF Spent, Genuine
    <3>1. Listed(q) /\ q # r
      BY <1>15
    <3>2. ~Matches(q, key)
      BY <1>5, <1>7, <3>1, MatchIsUnique DEF MatchInv
    <3> QED
      BY <3>2 DEF Matches, SameSource
  <2>5. Truthful(g)'
    BY <1>9 DEF Truthful
  <2>6. Truthful(h)'
    <3>1. req[r] # NotCreated
      BY <1>5, ListedIsCreated DEF MatchInv
    <3>2. SourcesToCopy(r)' = {OpOf(r)[2]}
      <4>1. SourcesToCopy(r) = {OpOf(r)[2]}
        BY <1>5, SingleSource DEF MatchInv, SinglesOK
      <4> QED
        BY <4>1 DEF SourcesToCopy
    <3>3. OpOf(r) = <<r, OpOf(r)[2]>>
      BY DEF OpOf
    <3> QED
      BY <1>5, <1>6, <1>11, <3>1, <3>2, <3>3 DEF Truthful
  <2> QED
    BY <2>1, <2>2, <2>3, <2>4, <2>5, <2>6 DEF FramesOK, Spent, Truthful
<1>20. TopOK' /\ ToBeIdle' = 0
  <2>1. ~Running("NotifyCompletion")'
    BY <1>11, <1>19 DEF Running
  <2> QED
    BY <2>1 DEF TopOK, ToBeIdle, Awaited, Completing
<1>21. ActiveOK'
  <2> SUFFICES ASSUME NEW a \in inFlight
               PROVE  Listed(a[1])' /\ Processed(a[1])' /\ a = OpOf(a[1])'
    BY <1>18 DEF ActiveOK
  <2>1. Listed(a[1]) /\ Processed(a[1]) /\ a = OpOf(a[1])
    BY <1>18 DEF MatchInv, ActiveOK
  <2>2. a[1] \in Request
    BY DEF MatchInv, Inv, TypeOK
  <2>3. a[1] # r
    BY <1>5, <1>18, <2>1
  <2> QED
    BY <1>15, <2>1, <2>2, <2>3
<1>22. CopiedOK'
  <2> SUFFICES ASSUME NEW c \in copied
               PROVE  req[c[1]] # NotCreated /\ ~Listed(c[1])'
    BY DEF CopiedOK
  <2>1. c[1] \in Request
    BY DEF MatchInv, Inv, TypeOK
  <2>2. req[c[1]] # NotCreated /\ (Listed(c[1]) => Completing(c[1]))
    BY DEF MatchInv, CopiedOK
  <2> QED
    BY <1>15, <1>17, <2>1, <2>2
<1>23. BegunOK'
  <2> SUFFICES ASSUME EndsAreTold, NEW q \in Request, Listed(q)', Processed(q)'
               PROVE  OpOf(q)' \in Active'
    BY DEF BegunOK, EndsAreTold
  <2>1. Listed(q) /\ q # r /\ Processed(q) /\ OpOf(q)' = OpOf(q)
    BY <1>15
  <2> QED
    BY <1>17, <1>18, <2>1 DEF MatchInv, BegunOK
<1>24. IdleOK'
  <2> SUFFICES ASSUME EndsAreTold
               PROVE  /\ IsFiniteSet(Idle)'
                      /\ Cardinality(Idle)' + ToBeIdle'
                           <= Cardinality(Looking(callStack))'
    BY DEF IdleOK, EndsAreTold
  <2>1. IsFiniteSet(Idle)
    BY DEF MatchInv, IdleOK
  <2>2. Cardinality(Idle) + 1 <= Cardinality(Looking(callStack))
    BY <1>5 DEF MatchInv, IdleOK, ToBeIdle, Awaited
  <2>3. /\ IsFiniteSet(Idle \cup {req[r].dst})
        /\ Cardinality(Idle \cup {req[r].dst}) <= Cardinality(Idle) + 1
        /\ Cardinality(Idle) \in Nat
    <3> PICK idle, d : idle = Idle /\ d = req[r].dst
      OBVIOUS
    <3>1. IsFiniteSet(idle)
      BY <2>1
    <3>2. Cardinality(idle) \in Nat
      BY <3>1, FS_CardinalityType
    <3>3. /\ IsFiniteSet(idle \cup {d})
          /\ Cardinality(idle \cup {d}) =
               IF d \in idle THEN Cardinality(idle) ELSE Cardinality(idle) + 1
      BY <3>1, FS_AddElement
    <3> QED
      BY <3>2, <3>3
  <2>4. /\ IsFiniteSet(Idle')
        /\ Cardinality(Idle') <= Cardinality(Idle \cup {req[r].dst})
        /\ Cardinality(Idle') \in Nat
        /\ Cardinality(Idle \cup {req[r].dst}) \in Nat
    <3>1. IsFiniteSet(Idle') /\ Cardinality(Idle') <= Cardinality(Idle \cup {req[r].dst})
      BY <1>15, <2>3, FS_Subset
    <3> QED
      BY <2>3, <3>1, FS_CardinalityType
  <2>5. Cardinality(Looking(callStack)) = Cardinality(Looking(rest)) + 1
    BY <1>1, <1>12, PopLooking DEF Looks, MatchInv
  <2>6. Cardinality(Looking(stack)) = Cardinality(Looking(rest)) + 1
    BY <1>9, <1>13, PushLooking DEF Looks
  <2>7. Cardinality(Looking(Push(stack, h))) = Cardinality(Looking(stack)) + 0
    BY <1>11, PushLooking DEF Looks
  <2>8. Looking(callStack)' = Looking(Push(stack, h))
    BY <1>14 DEF Looking, Looks
  <2>9. Cardinality(Looking(rest)) \in Nat
    BY LookingFinite
  <2> QED
    BY <1>20, <2>2, <2>3, <2>4, <2>5, <2>6, <2>7, <2>8, <2>9
<1> QED
  BY <1>15, <1>19, <1>20, <1>21, <1>22, <1>23, <1>24 DEF MatchInv

(* When the loop of NotifyCompletion ends, its key matches nothing that is
   left on the queue.                                                      *)
LEMMA NothingToClear ==
  ASSUME MatchInv, Running("NotifyCompletion"),
         \A i \in DOMAIN m_copyRequests : ~ToClear(i),
         NEW r \in Request, Listed(r)
  PROVE  ~Completing(r)
<1> SUFFICES ASSUME Completing(r) PROVE FALSE
  OBVIOUS
<1>1. PICK i \in DOMAIN m_copyRequests : m_copyRequests[i] = r
  BY DEF Listed
<1>2. PICK key : key = Top.key
  OBVIOUS
<1>3. Genuine(key) /\ Matches(m_copyRequests[i], key)
  BY <1>1, <1>2 DEF MatchInv, TopOK, Completing
<1>4. FindRequest(i, key)
  BY <1>3, MatchIsFound DEF MatchInv
<1>5. Top.num = Len(m_copyRequests) /\ Processed(r)
  BY DEF MatchInv, TopOK
<1>6. i <= Len(m_copyRequests)
  BY QueuePositions DEF MatchInv
<1>7. AllSourcesProcessed(r) \/ req[r].processed
  BY <1>5 DEF Processed
<1>8. ToClear(i)
  BY <1>1, <1>2, <1>4, <1>5, <1>6, <1>7 DEF ToClear
<1> QED
  BY <1>8

LEMMA DoNextCopyFrame ==
  [op |-> "DoNextCopy"] \in Frame /\ [op |-> "DoNextCopy"].op = "DoNextCopy"
<1>1. [op |-> "DoNextCopy"] \in [op : {"DoNextCopy"}]
  OBVIOUS
<1> QED
  BY <1>1 DEF Frame

LEMMA NotifyCompletionEndsStep ==
  ASSUME MatchInv, Inv', ActiveIs', Running("NotifyCompletion"),
         NotifyCompletionEnds, UNCHANGED <<req, starts, inFlight, copied, alive>>
  PROVE  MatchInv'
<1>1. callStack # <<>> /\ Top.op = "NotifyCompletion"
  BY DEF Running
<1>2. /\ Top \in Frame /\ Tail(callStack) \in Seq(Frame)
      /\ Below = FramesOf(Tail(callStack))
  BY <1>1, TopOnTail DEF MatchInv
<1>3. PICK rest \in Seq(Frame) : rest = Tail(callStack)
  BY <1>2
<1>4. PICK f \in Frame : f = [op |-> "DoNextCopy"] /\ f.op = "DoNextCopy"
  BY DoNextCopyFrame
<1>5. callStack' = Push(rest, f) /\ UNCHANGED m_copyRequests
  BY <1>3, <1>4 DEF NotifyCompletionEnds
<1>6. \A r \in Request : Listed(r) => ~Completing(r)
  BY NothingToClear DEF NotifyCompletionEnds
<1>7. AllKept /\ ProgressKept
  BY SameRecords DEF MatchInv
<1>8. NoneAdded /\ \A q \in Request : Listed(q)' <=> Listed(q)
  BY <1>5, <1>7, SameQueue DEF MatchInv
<1>9. SinglesOK' /\ PairsOK'
  BY <1>7, <1>8, NoneAddedKeeps DEF MatchInv
<1>10. FirstOK' /\ Idle' = Idle
  BY <1>5, <1>7, NothingMoves DEF MatchInv
<1>11. FramesOK' /\ Top' = f
  <2>1. \A g \in FramesOf(rest) : Spent(g) /\ Truthful(g)
    BY <1>2, <1>3 DEF MatchInv, FramesOK
  <2>2. Truthful(f)'
    BY <1>4 DEF Truthful
  <2>3. KeepsFrames
    BY <1>7, <1>8 DEF KeepsFrames
  <2> QED
    BY <1>5, <2>1, <2>2, <2>3, AfterPush DEF MatchInv
<1>12. Active = inFlight /\ Active' = inFlight /\ ~InFolderCall'
  <2>1. ~InFolderCall
    BY <1>1 DEF InFolderCall, Running
  <2>2. Active = inFlight
    BY <2>1, ActiveIsKnown DEF MatchInv, ActiveIs
  <2>3. ~InFolderCall'
    BY <1>4, <1>11 DEF InFolderCall, Running
  <2> QED
    BY <2>2, <2>3 DEF ActiveIs
<1>13. ActiveOK'
  <2>1. \A a \in Active' : Listed(a[1])' /\ Processed(a[1])' /\ a = OpOf(a[1])'
    BY <1>5, <1>7, <1>12, ActiveKept
  <2> QED
    BY <2>1, <1>12 DEF ActiveOK
<1>14. ~Running("NotifyCompletion")'
  BY <1>4, <1>11 DEF Running
<1>15. TopOK' /\ ToBeIdle' = 0
  BY <1>14 DEF TopOK, ToBeIdle, Awaited, Completing
<1>16. CopiedOK'
  <2> SUFFICES ASSUME NEW c \in copied
               PROVE  req[c[1]] # NotCreated /\ ~Listed(c[1])'
    BY DEF CopiedOK
  <2>1. c[1] \in Request
    BY DEF MatchInv, Inv, TypeOK
  <2> QED
    BY <1>6, <1>8, <2>1 DEF MatchInv, CopiedOK
<1>17. BegunOK'
  <2> SUFFICES ASSUME EndsAreTold, NEW q \in Request, Listed(q)', Processed(q)'
               PROVE  OpOf(q)' \in Active'
    BY DEF BegunOK, EndsAreTold
  <2>1. Listed(q) /\ Processed(q)
    BY <1>7, <1>8 DEF ProgressKept
  <2>2. OpOf(q)' = OpOf(q)
    BY DEF OpOf
  <2> QED
    BY <1>6, <1>12, <2>1, <2>2 DEF MatchInv, BegunOK
<1>18. IdleOK'
  <2>1. Cardinality(Looking(callStack)) = Cardinality(Looking(rest)) + 1
    BY <1>1, <1>3, PopLooking DEF Looks, MatchInv
  <2>2. Cardinality(Looking(Push(rest, f))) = Cardinality(Looking(rest)) + 1
    BY <1>4, PushLooking DEF Looks
  <2>3. Looking(callStack)' = Looking(Push(rest, f))
    BY <1>5 DEF Looking, Looks
  <2>4. ToBeIdle = 0
    BY <1>6 DEF ToBeIdle, Awaited
  <2> QED
    BY <1>10, <1>15, <2>1, <2>2, <2>3, <2>4 DEF MatchInv, IdleOK, EndsAreTold
<1> QED
  BY <1>9, <1>10, <1>11, <1>13, <1>15, <1>16, <1>17, <1>18 DEF MatchInv

LEMMA FolderRefusesStep ==
  ASSUME MatchInv, Inv', ActiveIs', FolderRefuses
  PROVE  MatchInv'
<1>1. callStack # <<>> /\ Top.op = "Copying" /\ InFolderCall
  BY DEF FolderRefuses, InFolderCall, Running
<1>2. /\ Top \in Frame /\ Tail(callStack) \in Seq(Frame)
      /\ Below = FramesOf(Tail(callStack))
  BY <1>1, TopOnTail DEF MatchInv
<1>3. PICK rest \in Seq(Frame) : rest = Tail(callStack)
  BY <1>2
<1>4. PICK r \in Request : r = Top.r
  BY <1>1, <1>2 DEF Frame
<1>5. CurrentOp \in Active /\ CurrentOp \notin inFlight
  BY <1>1, ActiveIsKnown DEF MatchInv, ActiveIs, ActiveOK
<1>6. Listed(r) /\ CurrentOp = OpOf(r)
  BY <1>4, <1>5 DEF MatchInv, ActiveOK, CurrentOp
<1>7. PICK h \in Frame : /\ h = [op |-> "OnStopCopy", r |-> r, ok |-> FALSE]
                         /\ h.op = "OnStopCopy" /\ h.r = r /\ ~h.ok
  <2>1. [op |-> "OnStopCopy", r |-> r, ok |-> FALSE]
          \in [op : {"OnStopCopy"}, r : Request, ok : BOOLEAN]
    OBVIOUS
  <2> QED
    BY <2>1 DEF Frame
<1>8. /\ m_copyRequests' = RemoveFirst(m_copyRequests, r)
      /\ callStack' = Push(rest, h)
      /\ UNCHANGED <<req, inFlight, copied>>
  BY <1>3, <1>4, <1>7 DEF FolderRefuses, ClearRequest
<1>9. /\ AllKept /\ NoneAdded
      /\ SinglesOK' /\ PairsOK' /\ FirstOK'
      /\ \A q \in Request : /\ Listed(q)' <=> (Listed(q) /\ q # r)
                            /\ Processed(q)' <=> Processed(q)
                            /\ OpOf(q)' = OpOf(q)
  BY <1>6, <1>8, ClearedKeeps
<1>10. FramesOK' /\ Top' = h
  <2>1. \A g \in FramesOf(rest) : Spent(g) /\ Truthful(g)
    BY <1>2, <1>3 DEF MatchInv, FramesOK
  <2>2. Truthful(h)'
    <3>1. req[r] # NotCreated
      BY <1>6, ListedIsCreated DEF MatchInv
    <3> QED
      BY <1>7, <1>8, <3>1 DEF Truthful
  <2>3. KeepsFrames
    BY <1>8, <1>9 DEF KeepsFrames
  <2> QED
    BY <1>8, <2>1, <2>2, <2>3, AfterPush DEF MatchInv
<1>11. /\ ~Running("NotifyCompletion") /\ ~Running("NotifyCompletion")'
       /\ ~InFolderCall'
  BY <1>1, <1>7, <1>10 DEF InFolderCall, Running
<1>12. Active' = inFlight
  BY <1>8, <1>11 DEF ActiveIs
<1>13. ActiveOK'
  <2> SUFFICES ASSUME NEW a \in inFlight
               PROVE  Listed(a[1])' /\ Processed(a[1])' /\ a = OpOf(a[1])'
    BY <1>11, <1>12 DEF ActiveOK
  <2>1. a \in Active
    BY ActiveIsKnown DEF MatchInv, ActiveIs
  <2>2. Listed(a[1]) /\ Processed(a[1]) /\ a = OpOf(a[1])
    BY <2>1 DEF MatchInv, ActiveOK
  <2>3. a[1] \in Request
    BY DEF MatchInv, Inv, TypeOK
  <2>4. a[1] # r
    BY <1>5, <1>6, <2>2
  <2> QED
    BY <1>9, <2>2, <2>3, <2>4
<1>14. TopOK'
  BY <1>11 DEF TopOK
<1>15. CopiedOK'
  BY <1>8, <1>9, <1>11, NotCompleting DEF CopiedOK
<1>16. BegunOK' /\ IdleOK'
  BY DEF BegunOK, IdleOK, EndsAreTold, FolderRefuses
<1> QED
  BY <1>9, <1>10, <1>13, <1>14, <1>15, <1>16 DEF MatchInv

LEMMA FolderEndsSilentlyStep ==
  ASSUME MatchInv, Inv', ActiveIs', NEW op \in inFlight, FolderEndsSilently(op)
  PROVE  MatchInv'
<1>1. callStack = <<>> /\ callStack' = <<>>
  BY DEF FolderEndsSilently
<1>2. /\ ~InFolderCall /\ ~InFolderCall'
      /\ ~Running("NotifyCompletion") /\ ~Running("NotifyCompletion")'
  BY <1>1 DEF InFolderCall, Running
<1>3. UNCHANGED <<m_copyRequests, req, copied>>
  BY DEF FolderEndsSilently
<1>4. AllKept /\ ProgressKept
  BY <1>3, SameRecords DEF MatchInv
<1>5. NoneAdded /\ \A q \in Request : Listed(q)' <=> Listed(q)
  BY <1>3, <1>4, SameQueue DEF MatchInv
<1>6. SinglesOK' /\ PairsOK'
  BY <1>4, <1>5, NoneAddedKeeps DEF MatchInv
<1>7. FirstOK'
  BY <1>3, <1>4, NothingMoves DEF MatchInv
<1>8. Active' \subseteq Active
  BY <1>2, ActiveIsKnown DEF MatchInv, ActiveIs, FolderEndsSilently
<1>9. ActiveOK'
  <2>1. \A a \in Active' : Listed(a[1])' /\ Processed(a[1])' /\ a = OpOf(a[1])'
    BY <1>3, <1>4, <1>8, ActiveKept
  <2> QED
    BY <1>2, <2>1 DEF ActiveOK
<1>10. TopOK' /\ FramesOK'
  BY <1>1, <1>2 DEF TopOK, FramesOK, Below
<1>11. CopiedOK'
  BY <1>2, <1>3, <1>5, NotCompleting DEF CopiedOK
<1>12. BegunOK' /\ IdleOK'
  BY DEF BegunOK, IdleOK, EndsAreTold, FolderEndsSilently
<1> QED
  BY <1>6, <1>7, <1>9, <1>10, <1>11, <1>12 DEF MatchInv

(* With the queue gone nothing is left to be matched.                      *)
NothingGoesOn ==
  /\ m_copyRequests = <<>> /\ callStack = <<>> /\ inFlight = {}
  /\ \A op \in copied : req[op[1]] # NotCreated

LEMMA NothingGoesOnIsOK == Inv /\ ActiveIs /\ NothingGoesOn => MatchInv
<1> SUFFICES ASSUME Inv, ActiveIs, m_copyRequests = <<>>, callStack = <<>>,
                    inFlight = {}, \A op \in copied : req[op[1]] # NotCreated
             PROVE  MatchInv
  BY DEF NothingGoesOn
<1>1. \A r : ~Listed(r)
  BY DEF Listed
<1>2. ~InFolderCall /\ ~Running("NotifyCompletion") /\ Active = {}
  BY DEF InFolderCall, Running, ActiveIs
<1>3. SinglesOK /\ PairsOK
  BY <1>1 DEF SinglesOK, PairsOK
<1>4. FirstOK
  BY DEF FirstOK, Older
<1>5. ActiveOK /\ TopOK /\ FramesOK /\ CopiedOK /\ BegunOK
  BY <1>1, <1>2 DEF ActiveOK, TopOK, FramesOK, Below, CopiedOK, BegunOK
<1>6. Idle = {} /\ ToBeIdle = 0
  BY <1>1 DEF Idle, ToBeIdle, Awaited
<1>7. IsFiniteSet(Idle) /\ Cardinality(Idle) = 0
  BY <1>6, FS_EmptySet
<1>8. Cardinality(Looking(callStack)) \in Nat
  BY LookingFinite DEF Inv, TypeOK
<1>9. IdleOK
  BY <1>6, <1>7, <1>8 DEF IdleOK
<1> QED
  BY <1>3, <1>4, <1>5, <1>9 DEF MatchInv

LEMMA DestroyStep ==
  ASSUME MatchInv, Inv', ActiveIs', Destroy
  PROVE  MatchInv'
<1>1. NothingGoesOn'
  BY DEF NothingGoesOn, Destroy, MatchInv, CopiedOK
<1> QED
  BY <1>1, NothingGoesOnIsOK, PTL

LEMMA InitMatch == Init => MatchInv
<1> SUFFICES ASSUME Init PROVE MatchInv
  OBVIOUS
<1>1. Inv /\ ActiveIs
  BY InitInv, ActiveIsKnown
<1> QED
  BY <1>1, NothingGoesOnIsOK DEF Init, NothingGoesOn

-----------------------------------------------------------------------------
(* DoNextCopy.                                                             *)

(* Storing m_processed for a request that counts as processed anyway.      *)
LEMMA ScannedKeeps ==
  ASSUME Inv, NEW n, NEW q \in Request, req[q] # NotCreated,
         req'[q] = MarkScanned(n)[q]
  PROVE  Kept(q) /\ (Processed(q)' <=> Processed(q)) /\ req'[q].handled = req[q].handled
<1>1. req[q] \in CopyRequest
  BY DEF Inv, TypeOK
<1>2. CASE req'[q] = req[q]
  BY <1>2 DEF Kept, Processed, AllSourcesProcessed
<1>3. CASE req'[q] = [req[q] EXCEPT !.processed = TRUE] /\ Processed(q)
  <2>1. /\ req'[q] \in CopyRequest
        /\ req'[q].type = req[q].type /\ req'[q].src = req[q].src
        /\ req'[q].dst = req[q].dst /\ req'[q].dstName = req[q].dstName
        /\ req'[q].sources = req[q].sources /\ req'[q].handled = req[q].handled
        /\ req'[q].processed = TRUE
    BY <1>1, <1>3 DEF CopyRequest
  <2>2. req'[q] # NotCreated
    BY <2>1 DEF CopyRequest, NotCreated
  <2> QED
    BY <1>3, <2>1, <2>2 DEF Kept, Processed
<1>4. \/ req'[q] = req[q]
      \/ req'[q] = [req[q] EXCEPT !.processed = TRUE] /\ Processed(q)
  BY DEF MarkScanned
<1> QED
  BY <1>2, <1>3, <1>4

(* Where nothing can start, every folder that is wanted is busy.           *)
LEMMA NoneStartableMeansBusy ==
  ASSUME Inv, \A i \in DOMAIN m_copyRequests : ~Startable(i)
  PROVE  Idle = {}
<1> SUFFICES ASSUME NEW f \in Idle PROVE FALSE
  OBVIOUS
<1>1. /\ \A i \in 1..Len(m_copyRequests) :
           m_copyRequests[i] \in Request /\ Listed(m_copyRequests[i])
      /\ DOMAIN m_copyRequests = 1..Len(m_copyRequests)
      /\ Len(m_copyRequests) \in Nat
  BY QueuePositions
<1>2. /\ \E q \in Request : Listed(q) /\ req[q].dst = f
      /\ \A q \in Request : Listed(q) /\ req[q].dst = f => ~Processed(q)
  BY DEF Idle
<1>3. PICK i \in 1..Len(m_copyRequests) : req[m_copyRequests[i]].dst = f
  BY <1>1, <1>2 DEF Listed
<1>4. ~Processed(m_copyRequests[i])
  BY <1>1, <1>2, <1>3
<1>5. ~TargetActiveBefore(i)
  <2> SUFFICES ASSUME NEW j \in 1..(i - 1), Processed(m_copyRequests[j]),
                      req[m_copyRequests[j]].dst = f
               PROVE  FALSE
    BY <1>3 DEF TargetActiveBefore
  <2>1. j \in 1..Len(m_copyRequests)
    BY <1>1
  <2> QED
    BY <1>1, <1>2, <2>1
<1> QED
  BY <1>1, <1>4, <1>5 DEF Startable

LEMMA DoNextCopyFindsNoneStep ==
  ASSUME MatchInv, Inv', ActiveIs', Running("DoNextCopy"), DoNextCopyFindsNone,
         UNCHANGED <<m_copyRequests, stops, inFlight, copied, undoBatches, alive>>
  PROVE  MatchInv'
<1>1. callStack # <<>> /\ Top.op = "DoNextCopy" /\ callStack' = Tail(callStack)
  BY DEF Running, DoNextCopyFindsNone
<1>2. ~Running("NotifyCompletion") /\ ~InFolderCall
  BY <1>1 DEF Running, InFolderCall
<1>3. \A q \in Request : req[q] # NotCreated => Kept(q) /\ (Processed(q)' <=> Processed(q))
  BY ScannedKeeps DEF DoNextCopyFindsNone, MatchInv
<1>4. AllKept /\ ProgressKept
  BY <1>3, ListedIsCreated DEF AllKept, ProgressKept, MatchInv
<1>5. NoneAdded /\ \A q \in Request : Listed(q)' <=> Listed(q)
  BY <1>4, SameQueue DEF MatchInv
<1>6. SinglesOK' /\ PairsOK'
  BY <1>4, <1>5, NoneAddedKeeps DEF MatchInv
<1>7. FirstOK' /\ Idle' = Idle
  BY <1>4, NothingMoves DEF MatchInv
<1>8. Active = inFlight /\ Active' = inFlight /\ ~InFolderCall'
  BY <1>1, <1>2, PopSettles, ActiveIsKnown DEF MatchInv, ActiveIs
<1>9. ActiveOK'
  <2>1. \A a \in Active' : Listed(a[1])' /\ Processed(a[1])' /\ a = OpOf(a[1])'
    BY <1>4, <1>8, ActiveKept
  <2> QED
    BY <2>1, <1>8 DEF ActiveOK
<1>10. FramesOK' /\ NotAwaited'
  BY <1>1, <1>4, <1>5, AfterPop DEF MatchInv, KeepsFrames
<1>11. TopOK' /\ ToBeIdle' = 0
  BY <1>10 DEF NotAwaited
<1>12. CopiedOK'
  <2> SUFFICES ASSUME NEW c \in copied
               PROVE  req'[c[1]] # NotCreated /\ ~Listed(c[1])'
    BY DEF CopiedOK
  <2>1. c[1] \in Request /\ req[c[1]] # NotCreated /\ ~Listed(c[1])
    BY <1>2, NotCompleting
  <2> QED
    BY <1>4, <1>5, <2>1 DEF AllKept, Kept
<1>13. BegunOK'
  <2> SUFFICES ASSUME EndsAreTold, NEW q \in Request, Listed(q)', Processed(q)'
               PROVE  OpOf(q)' \in Active'
    BY DEF BegunOK, EndsAreTold
  <2>1. Listed(q) /\ Processed(q)
    BY <1>4, <1>5 DEF ProgressKept
  <2>2. OpOf(q) \in Active
    BY <1>2, <2>1, NotCompleting
  <2>3. Kept(q)
    BY <1>4, <2>1, ListedIsCreated DEF AllKept, MatchInv
  <2>4. OpOf(q)' = OpOf(q)
    BY <2>3, KeptFacts
  <2> QED
    BY <1>8, <2>2, <2>4
<1>14. IdleOK'
  <2>1. Idle = {}
    BY NoneStartableMeansBusy DEF MatchInv, DoNextCopyFindsNone
  <2>2. IsFiniteSet(Idle)' /\ Cardinality(Idle)' = 0
    BY <1>7, <2>1, FS_EmptySet
  <2>3. Cardinality(Looking(Tail(callStack))) \in Nat
    BY <1>1, PopLooking DEF MatchInv
  <2>4. Looking(callStack)' = Looking(Tail(callStack))
    BY <1>1 DEF Looking, Looks
  <2> QED
    BY <1>11, <2>2, <2>3, <2>4 DEF IdleOK
<1> QED
  BY <1>6, <1>7, <1>9, <1>10, <1>11, <1>12, <1>13, <1>14 DEF MatchInv

(* What the scan starts is the request's only operation, and the oldest of
   its folder's requests.                                                  *)
LEMMA StartsTheOldest ==
  ASSUME MatchInv, NEW i \in DOMAIN m_copyRequests, NEW s, Startable(i),
         \A j \in 1..(i - 1) : ~Startable(j),
         IsNextSource(m_copyRequests[i], s),
         NEW r, r = m_copyRequests[i]
  PROVE  /\ r \in Request /\ Listed(r) /\ ~Processed(r)
         /\ <<r, s>> = OpOf(r)
         /\ \A q \in Request : Listed(q) /\ req[q].dst = req[r].dst =>
              /\ ~Processed(q)
              /\ ~Older(q, r)
<1>1. /\ \A k \in 1..Len(m_copyRequests) :
           m_copyRequests[k] \in Request /\ Listed(m_copyRequests[k])
      /\ DOMAIN m_copyRequests = 1..Len(m_copyRequests)
      /\ Len(m_copyRequests) \in Nat
      /\ \A k, j \in 1..Len(m_copyRequests) :
           m_copyRequests[k] = m_copyRequests[j] => k = j
  BY QueuePositions DEF MatchInv
<1>2. r \in Request /\ Listed(r) /\ ~Processed(r)
  BY <1>1 DEF Startable
<1>3. <<r, s>> = OpOf(r)
  <2>1. req[r].sources = <<>> => s = 0
    BY DEF IsNextSource
  <2>2. ASSUME req[r].sources # <<>> PROVE s = 1
    <3>1. s \in DOMAIN req[r].sources
      BY <2>2 DEF IsNextSource
    <3>2. \E x : req[r].sources = <<x>>
      <4>1. req[r].type \in {"messages", "folders", "file"}
        BY <1>2, ListedIsCreated DEF MatchInv, CopyRequest
      <4> QED
        BY <1>2, <2>2, <4>1 DEF MatchInv, SinglesOK, Single
    <3> QED
      BY <3>1, <3>2
  <2> QED
    BY <2>1, <2>2 DEF OpOf
<1>4. ASSUME NEW j \in 1..(i - 1), req[m_copyRequests[j]].dst = req[r].dst
      PROVE  FALSE
  <2>1. ~Startable(i)
    BY <1>1, <1>4, OlderRequestBlocks
  <2> QED
    BY <2>1
<1>5. ASSUME NEW q \in Request, Listed(q), req[q].dst = req[r].dst
      PROVE  ~Processed(q) /\ ~Older(q, r)
  <2>1. ~Older(q, r)
    <3> SUFFICES ASSUME Older(q, r) PROVE FALSE
      OBVIOUS
    <3>1. \E j \in 1..(i - 1) : m_copyRequests[j] = q
      BY <1>1 DEF Older
    <3> QED
      BY <1>4, <1>5, <3>1
  <2>2. PICK k \in 1..Len(m_copyRequests) : m_copyRequests[k] = q
    BY <1>1, <1>5 DEF Listed
  <2>3. CASE k = i
    BY <1>2, <2>1, <2>2, <2>3
  <2>4. CASE k < i
    <3>1. k \in 1..(i - 1)
      BY <1>1, <2>4
    <3> QED
      BY <1>4, <1>5, <2>2, <3>1
  <2>5. CASE k > i
    <3>1. Older(r, q)
      BY <1>1, <2>2, <2>5 DEF Older
    <3>2. ~Processed(q)
      BY <1>2, <1>5, <3>1 DEF MatchInv, FirstOK
    <3> QED
      BY <2>1, <3>2
  <2> QED
    BY <1>1, <2>3, <2>4, <2>5
<1> QED
  BY <1>2, <1>3, <1>5

(* Starting it is all the progress there is.                               *)
LEMMA StartKeeps ==
  ASSUME MatchInv, NEW r \in Request, Listed(r), NEW s, <<r, s>> = OpOf(r), NEW n,
         n \in Int, n <= Len(m_copyRequests),
         req' = StartSource(r, s, MarkScanned(n))
  PROVE  /\ AllKept
         /\ Processed(r)'
         /\ \A q \in Request \ {r} : Listed(q) => (Processed(q)' <=> Processed(q))
<1> PICK scanned : scanned = MarkScanned(n)
  OBVIOUS
<1>1. /\ scanned \in [Request -> CopyRequest \cup {NotCreated}]
      /\ \A q \in Request : SameRequest(req[q], scanned[q])
  BY MarkScannedKeeps DEF MatchInv
<1>2. req[r] # NotCreated /\ req[r] \in CopyRequest
  BY ListedIsCreated DEF MatchInv
<1>3. /\ scanned[r] \in CopyRequest
      /\ scanned[r].type = req[r].type /\ scanned[r].src = req[r].src
      /\ scanned[r].dst = req[r].dst /\ scanned[r].dstName = req[r].dstName
      /\ scanned[r].sources = req[r].sources
  BY <1>1, <1>2 DEF SameRequest
<1> PICK new : new = [scanned[r] EXCEPT
                        !.handled = @ \cup ({s} \ {0}),
                        !.processed = (@ \/ scanned[r].type = "file")]
  OBVIOUS
<1>4. req' = [scanned EXCEPT ![r] = new]
  BY <1>1, <1>3 DEF StartSource, CopyRequest
<1>5. /\ new.type = req[r].type /\ new.src = req[r].src
      /\ new.dst = req[r].dst /\ new.dstName = req[r].dstName
      /\ new.sources = req[r].sources
      /\ new.handled = scanned[r].handled \cup ({s} \ {0})
      /\ new.processed = (scanned[r].processed \/ scanned[r].type = "file")
      /\ new # NotCreated
  BY <1>3 DEF CopyRequest, NotCreated
<1>6. req'[r] = new
  BY <1>1, <1>4
<1>7. Kept(r)
  BY <1>5, <1>6 DEF Kept
<1>8. Processed(r)'
  <2>1. Single(req[r])
    BY DEF MatchInv, SinglesOK
  <2>2. CASE req[r].sources = <<>>
    <3>1. req[r].type = "file"
      BY <1>2, <2>1, <2>2 DEF Single, CopyRequest
    <3> QED
      BY <1>3, <1>5, <1>6, <3>1 DEF Processed
  <2>3. CASE req[r].sources # <<>>
    <3>1. s = 1
      BY <2>3 DEF OpOf
    <3>2. DOMAIN req[r].sources = {1}
      BY <1>2, <2>1, <2>3 DEF Single, CopyRequest
    <3>3. DOMAIN new.sources \subseteq new.handled /\ new.sources # <<>>
      BY <1>5, <2>3, <3>1, <3>2
    <3> QED
      BY <1>6, <3>3 DEF Processed, AllSourcesProcessed
  <2> QED
    BY <2>2, <2>3
<1>9. ASSUME NEW q \in Request \ {r}, req[q] # NotCreated
      PROVE  Kept(q) /\ (Processed(q)' <=> Processed(q))
  <2>1. req'[q] = MarkScanned(n)[q]
    BY <1>1, <1>4
  <2> QED
    BY <1>9, <2>1, ScannedKeeps DEF MatchInv
<1>10. AllKept
  BY <1>7, <1>9 DEF AllKept
<1> QED
  BY <1>8, <1>9, <1>10, ListedIsCreated DEF MatchInv

LEMMA DoNextCopyStartsStep ==
  ASSUME MatchInv, Inv', ActiveIs', Running("DoNextCopy"),
         NEW i \in DOMAIN m_copyRequests, NEW s \in 0..MaxSources,
         DoNextCopyStarts(i, s),
         UNCHANGED <<m_copyRequests, stops, inFlight, copied, undoBatches, alive>>
  PROVE  MatchInv'
<1>1. callStack # <<>> /\ Top.op = "DoNextCopy"
  BY DEF Running
<1>2. ~Running("NotifyCompletion") /\ ~InFolderCall
  BY <1>1 DEF Running, InFolderCall
<1>3. PICK r : r = m_copyRequests[i]
  OBVIOUS
<1>4. /\ r \in Request /\ Listed(r) /\ ~Processed(r)
      /\ <<r, s>> = OpOf(r)
      /\ \A q \in Request : Listed(q) /\ req[q].dst = req[r].dst =>
           /\ ~Processed(q)
           /\ ~Older(q, r)
  BY <1>3, StartsTheOldest DEF DoNextCopyStarts
<1>5. PICK rest \in Seq(Frame) : rest = Tail(callStack)
  BY <1>1, TopOnTail DEF MatchInv
<1>6. PICK f : f = [op |-> "Copying", r |-> r, s |-> s, notified |-> FALSE]
  OBVIOUS
<1>7. /\ f \in Frame /\ f.op = "Copying" /\ f.r = r /\ f.s = s
      /\ ~f.notified
  <2>1. s \in Nat
    BY CopyAssumption
  <2>2. f \in [op : {"Copying"}, r : Request, s : Nat, notified : BOOLEAN]
    BY <1>4, <1>6, <2>1
  <2> QED
    BY <1>6, <2>2 DEF Frame
<1>8. /\ callStack' = Push(rest, f)
      /\ req' = StartSource(r, s, MarkScanned(i - 1))
  BY <1>3, <1>5, <1>6 DEF DoNextCopyStarts
<1>9. /\ AllKept
      /\ Processed(r)'
      /\ \A q \in Request \ {r} : Listed(q) => (Processed(q)' <=> Processed(q))
  <2>1. i - 1 \in Int /\ i - 1 <= Len(m_copyRequests)
    BY QueuePositions DEF MatchInv
  <2> PICK n : n = i - 1
    OBVIOUS
  <2> QED
    BY <1>4, <1>8, <2>1, StartKeeps
<1>10. /\ NoneAdded
       /\ \A q \in Request : Listed(q)' <=> Listed(q)
       /\ \A p, q \in Request :
            Older(p, q)' => Older(p, q) /\ Listed(p) /\ Listed(q)
       /\ \A q \in Request : Listed(q) => req'[q].dst = req[q].dst
  BY <1>9, SameQueue DEF MatchInv
<1>11. SinglesOK' /\ PairsOK'
  BY <1>9, <1>10, NoneAddedKeeps DEF MatchInv
<1>12. FirstOK'
  <2> SUFFICES ASSUME NEW p \in Request, NEW q \in Request, Older(p, q)',
                      req'[p].dst = req'[q].dst
               PROVE  ~Processed(q)'
    BY DEF FirstOK
  <2>1. Older(p, q) /\ Listed(p) /\ Listed(q) /\ req[p].dst = req[q].dst
    BY <1>10
  <2>2. q # r
    BY <1>4, <2>1
  <2>3. ~Processed(q)
    BY <2>1 DEF MatchInv, FirstOK
  <2> QED
    BY <1>9, <2>1, <2>2, <2>3
<1>13. FramesOK' /\ Top' = f
  <2>1. \A g \in FramesOf(rest) : Spent(g) /\ Truthful(g)
    BY <1>1, <1>5, TopOnTail DEF MatchInv, FramesOK
  <2>2. Truthful(f)'
    BY <1>7 DEF Truthful
  <2>3. KeepsFrames
    BY <1>9, <1>10 DEF KeepsFrames
  <2> QED
    BY <1>7, <1>8, <2>1, <2>2, <2>3, AfterPush DEF MatchInv
<1>14. /\ Active = inFlight /\ Active' = inFlight \cup {OpOf(r)}
       /\ CurrentOp' = OpOf(r) /\ ~Running("NotifyCompletion")'
  <2>1. Active = inFlight
    BY <1>2, ActiveIsKnown DEF MatchInv, ActiveIs
  <2>2. callStack' # <<>>
    BY <1>7, <1>8, PushShape
  <2>3. InFolderCall' /\ CurrentOp' = OpOf(r) /\ ~Running("NotifyCompletion")'
    BY <1>4, <1>7, <1>13, <2>2 DEF InFolderCall, Running, CurrentOp
  <2> QED
    BY <2>1, <2>3 DEF ActiveIs
<1>15. \A q \in Request : Listed(q) => OpOf(q)' = OpOf(q)
  BY <1>9, ListedIsCreated, KeptFacts DEF AllKept, MatchInv
<1>16. OpOf(r)[1] = r
  BY DEF OpOf
<1>17. \A a \in inFlight : /\ a[1] \in Request /\ Listed(a[1])
                           /\ Processed(a[1]) /\ a = OpOf(a[1]) /\ a[1] # r
  <2>1. \A a \in inFlight : a[1] \in Request
    BY DEF MatchInv, Inv, TypeOK
  <2> QED
    BY <1>4, <1>14, <2>1 DEF MatchInv, ActiveOK
<1>18. ActiveOK'
  <2>1. ASSUME NEW a \in Active'
        PROVE  Listed(a[1])' /\ Processed(a[1])' /\ a = OpOf(a[1])'
    <3>1. CASE a \in inFlight
      BY <1>9, <1>10, <1>15, <1>17, <3>1
    <3>2. CASE a = OpOf(r)
      BY <1>4, <1>9, <1>10, <1>15, <1>16, <3>2
    <3> QED
      BY <1>14, <3>1, <3>2
  <2>2. CurrentOp' \notin inFlight'
    BY <1>14, <1>16, <1>17
  <2> QED
    BY <2>1, <2>2 DEF ActiveOK
<1>19. TopOK' /\ ToBeIdle' = 0
  BY <1>14 DEF TopOK, ToBeIdle, Awaited, Completing
<1>20. CopiedOK'
  <2> SUFFICES ASSUME NEW c \in copied
               PROVE  req'[c[1]] # NotCreated /\ ~Listed(c[1])'
    BY DEF CopiedOK
  <2>1. c[1] \in Request /\ req[c[1]] # NotCreated /\ ~Listed(c[1])
    BY <1>2, NotCompleting
  <2> QED
    BY <1>9, <1>10, <2>1 DEF AllKept, Kept
<1>21. BegunOK'
  <2> SUFFICES ASSUME EndsAreTold, NEW q \in Request, Listed(q)', Processed(q)'
               PROVE  OpOf(q)' \in Active'
    BY DEF BegunOK, EndsAreTold
  <2>1. Listed(q) /\ OpOf(q)' = OpOf(q)
    BY <1>10, <1>15
  <2>2. CASE q = r
    BY <1>14, <2>1, <2>2
  <2>3. CASE q # r
    <3>1. Processed(q)
      BY <1>9, <2>1, <2>3
    <3>2. OpOf(q) \in Active
      BY <1>2, <2>1, <3>1, NotCompleting
    <3> QED
      BY <1>14, <2>1, <3>2
  <2> QED
    BY <2>2, <2>3
<1>22. IdleOK'
  <2> PICK d : d = req[r].dst
    OBVIOUS
  <2>1. d \in Idle
    <3>1. d \in Folder
      BY <1>4, ListedIsCreated DEF MatchInv
    <3> QED
      BY <1>4, <3>1 DEF Idle
  <2>2. Idle' \subseteq Idle \ {d}
    <3>1. d \notin Idle'
      BY <1>4, <1>9, <1>10 DEF Idle
    <3>2. ASSUME NEW g \in Idle', g # d PROVE g \in Idle
      <4>1. /\ g \in Folder
            /\ \E q \in Request : Listed(q)' /\ req'[q].dst = g
            /\ \A q \in Request : Listed(q)' /\ req'[q].dst = g => ~Processed(q)'
        BY DEF Idle
      <4>2. \E q \in Request : Listed(q) /\ req[q].dst = g
        BY <1>10, <4>1
      <4>3. ASSUME NEW q \in Request, Listed(q), req[q].dst = g
            PROVE  ~Processed(q)
        <5>1. q # r
          BY <3>2, <4>3
        <5>2. ~Processed(q)'
          BY <1>10, <4>1, <4>3
        <5> QED
          BY <1>9, <4>3, <5>1, <5>2
      <4> QED
        BY <4>1, <4>2, <4>3 DEF Idle
    <3> QED
      BY <3>1, <3>2
  <2> SUFFICES ASSUME EndsAreTold
               PROVE  /\ IsFiniteSet(Idle)'
                      /\ Cardinality(Idle)' + ToBeIdle'
                           <= Cardinality(Looking(callStack))'
    BY DEF IdleOK, EndsAreTold
  <2>3. IsFiniteSet(Idle) /\ Cardinality(Idle) + 0 <= Cardinality(Looking(callStack))
    BY <1>2, NotCompleting DEF MatchInv, IdleOK
  <2> PICK idle : idle = Idle
    OBVIOUS
  <2>4. /\ IsFiniteSet(idle \ {d}) /\ Cardinality(idle \ {d}) = Cardinality(idle) - 1
        /\ Cardinality(idle) \in Nat
    <3>1. IsFiniteSet(idle) /\ d \in idle
      BY <2>1, <2>3
    <3>2. Cardinality(idle) \in Nat
      BY <3>1, FS_CardinalityType
    <3>3. /\ IsFiniteSet(idle \ {d})
          /\ Cardinality(idle \ {d}) =
               IF d \in idle THEN Cardinality(idle) - 1 ELSE Cardinality(idle)
      BY <3>1, FS_RemoveElement
    <3> QED
      BY <3>1, <3>2, <3>3
  <2>5. /\ IsFiniteSet(Idle') /\ Cardinality(Idle') <= Cardinality(idle \ {d})
        /\ Cardinality(Idle') \in Nat
    <3>1. IsFiniteSet(Idle') /\ Cardinality(Idle') <= Cardinality(idle \ {d})
      BY <2>2, <2>4, FS_Subset
    <3> QED
      BY <3>1, FS_CardinalityType
  <2>6. Cardinality(Looking(callStack)) = Cardinality(Looking(rest)) + 1
    BY <1>1, <1>5, PopLooking DEF Looks, MatchInv
  <2>7. Cardinality(Looking(Push(rest, f))) = Cardinality(Looking(rest)) + 0
    BY <1>7, PushLooking DEF Looks
  <2>8. Looking(callStack)' = Looking(Push(rest, f))
    BY <1>8 DEF Looking, Looks
  <2>9. Cardinality(Looking(rest)) \in Nat
    BY LookingFinite
  <2> QED
    BY <1>19, <2>3, <2>4, <2>5, <2>6, <2>7, <2>8, <2>9
<1> QED
  BY <1>11, <1>12, <1>13, <1>18, <1>19, <1>20, <1>21, <1>22 DEF MatchInv

-----------------------------------------------------------------------------
(* Submitting a request.                                                   *)

(* Whoever may enter the service leaves no completion half matched.        *)
LEMMA FramesWhenEntered ==
  ASSUME MatchInv, MayCall
  PROVE  /\ \A g \in FramesOf(callStack) : g \in Frame /\ Spent(g) /\ Truthful(g)
         /\ ~Running("NotifyCompletion") /\ ~InFolderCall
<1>1. CASE callStack = <<>>
  BY <1>1 DEF FramesOf, Running, InFolderCall
<1>2. CASE callStack # <<>>
  <2>1. Top.op = "OnStopCopy"
    BY <1>2 DEF MayCall, Running
  <2> PICK rest \in Seq(Frame), f \in Frame :
        /\ rest = Tail(callStack) /\ f = Top
        /\ callStack = Push(rest, f) /\ Below = FramesOf(rest)
    BY <1>2, TopOnTail DEF MatchInv
  <2>2. FramesOf(callStack) = FramesOf(rest) \cup {f}
    BY PushShape
  <2>3. Spent(f) /\ Truthful(f)
    BY <1>2, <2>1 DEF MatchInv, FramesOK, Spent
  <2>4. \A g \in FramesOf(rest) : Spent(g) /\ Truthful(g)
    BY DEF MatchInv, FramesOK
  <2>5. FramesOf(rest) \subseteq Frame
    BY FramesOfTail
  <2> QED
    BY <2>1, <2>2, <2>3, <2>4, <2>5 DEF Running, InFolderCall
<1> QED
  BY <1>1, <1>2

LEMMA AppendedQueue ==
  ASSUME Inv, NEW r \in Request, m_copyRequests' = Append(m_copyRequests, r)
  PROVE  /\ \A q \in Request : Listed(q)' <=> (Listed(q) \/ q = r)
         /\ \A p, q \in Request : Older(p, q)' => Older(p, q) \/ q = r
<1> PICK old \in Seq(Request) : old = m_copyRequests
  BY DEF Inv, TypeOK
<1> PICK new : new = Append(old, r)
  OBVIOUS
<1>1. /\ new \in Seq(Request)
      /\ Len(new) = Len(old) + 1
      /\ \A i \in 1..Len(old) : new[i] = old[i]
      /\ new[Len(old) + 1] = r
  BY AppendProperties
<1>2. /\ Len(old) \in Nat
      /\ DOMAIN old = 1..Len(old) /\ DOMAIN new = 1..(Len(old) + 1)
  BY <1>1, LenProperties
<1>3. m_copyRequests' = new
  OBVIOUS
<1>4. ASSUME NEW q \in Request PROVE Listed(q)' <=> (Listed(q) \/ q = r)
  <2>1. Listed(q)' <=> \E i \in 1..(Len(old) + 1) : new[i] = q
    BY <1>2, <1>3 DEF Listed
  <2>2. Listed(q) <=> \E i \in 1..Len(old) : old[i] = q
    BY <1>2 DEF Listed
  <2> QED
    BY <1>1, <1>2, <2>1, <2>2
<1>5. ASSUME NEW p \in Request, NEW q \in Request, Older(p, q)', q # r
      PROVE  Older(p, q)
  <2>1. \E i \in 1..Len(new) : \E j \in 1..(i - 1) : new[j] = p /\ new[i] = q
    BY <1>3, <1>5 DEF Older
  <2>2. PICK i \in 1..Len(new) : \E j \in 1..(i - 1) : new[j] = p /\ new[i] = q
    BY <2>1
  <2>3. PICK j \in 1..(i - 1) : new[j] = p /\ new[i] = q
    BY <2>2
  <2>4. i \in 1..Len(old) /\ j \in 1..Len(old)
    BY <1>1, <1>2, <1>5, <2>3
  <2>5. old[i] = q /\ old[j] = p
    BY <1>1, <2>3, <2>4
  <2> QED
    BY <2>4, <2>5 DEF Older
<1> QED
  BY <1>4, <1>5

(* A request begins unprocessed: none of its sources is its destination.   *)
LEMMA NewIsUnprocessed ==
  ASSUME NEW type, NEW src, NEW dst \in Folder, NEW sources,
         Single(NewRequest(type, src, dst, sources)),
         type \in {"messages", "folders", "file"}
  PROVE  LET new == NewRequest(type, src, dst, sources) IN
           /\ ~new.processed
           /\ new.sources # <<>> => ~(DOMAIN new.sources \subseteq new.handled)
<1> PICK new : new = NewRequest(type, src, dst, sources)
  OBVIOUS
<1>1. /\ new.type = type /\ new.src = src /\ new.dst = dst
      /\ new.sources = sources
      /\ new.handled = {s \in DOMAIN sources : sources[s] = dst}
      /\ new.processed = FALSE
  BY DEF NewRequest
<1>2. ASSUME new.sources # <<>> PROVE ~(DOMAIN new.sources \subseteq new.handled)
  <2>1. \E x : sources = <<x>> /\ x # dst
    BY <1>1, <1>2, CopyAssumption DEF Single
  <2> QED
    BY <1>1, <2>1
<1> QED
  BY <1>1, <1>2

LEMMA SubmitStep ==
  ASSUME Ordinary, MatchInv, Inv', ActiveIs',
         NEW r \in Request, NEW type \in {"messages", "folders", "file"},
         NEW src, NEW dst \in Folder, NEW sources,
         Single(NewRequest(type, src, dst, sources)),
         Submit(r, type, src, dst, sources)
  PROVE  MatchInv'
<1> PICK new : new = NewRequest(type, src, dst, sources)
  OBVIOUS
<1>1. /\ new.type = type /\ new.src = src /\ new.dst = dst /\ Single(new)
      /\ ~new.processed
      /\ new.sources # <<>> => ~(DOMAIN new.sources \subseteq new.handled)
      /\ new # NotCreated
  <2>1. /\ new.type = type /\ new.src = src /\ new.dst = dst /\ Single(new)
        /\ new # NotCreated
    BY DEF NewRequest, NotCreated
  <2> QED
    BY <2>1, NewIsUnprocessed
<1>2. /\ MayCall /\ req[r] = NotCreated
      /\ ~PairIsQueued(src, dst) /\ ~PairIsCompleting(src, dst)
      /\ req' = [req EXCEPT ![r] = new]
      /\ DoCopy(r, new)
      /\ UNCHANGED <<starts, stops, inFlight, copied, alive>>
  BY DEF Submit, IsNext, Ordinary
<1>3. /\ req'[r] = new
      /\ \A q \in Request \ {r} : req'[q] = req[q]
  BY <1>2 DEF MatchInv, Inv, TypeOK
<1>4. ~Listed(r)
  BY <1>2, ListedIsCreated DEF MatchInv
<1>5. /\ \A q \in Request : Listed(q)' <=> (Listed(q) \/ q = r)
      /\ \A p, q \in Request : Older(p, q)' => Older(p, q) \/ q = r
  BY <1>2, AppendedQueue DEF MatchInv, DoCopy
<1>6. \A q \in Request \ {r} :
        /\ Processed(q)' <=> Processed(q)
        /\ OpOf(q)' = OpOf(q)
        /\ SourcesToCopy(q)' = SourcesToCopy(q)
        /\ \A key : Matches(q, key)' <=> Matches(q, key)
  BY <1>3 DEF Processed, AllSourcesProcessed, OpOf, SourcesToCopy, Matches, SameSource
<1>7. ~Processed(r)'
  BY <1>1, <1>3 DEF Processed, AllSourcesProcessed
<1>8. SinglesOK'
  <2> SUFFICES ASSUME NEW q \in Request, Listed(q)' PROVE Single(req'[q])
    BY DEF SinglesOK, Single
  <2> QED
    BY <1>1, <1>3, <1>5 DEF MatchInv, SinglesOK
<1>9. PairsOK'
  <2> SUFFICES ASSUME NEW p \in Request, NEW q \in Request, Listed(p)', Listed(q)',
                      req'[p].src = req'[q].src, req'[p].dst = req'[q].dst,
                      p # q
               PROVE  FALSE
    BY DEF PairsOK
  <2>1. CASE p = r
    BY <1>1, <1>2, <1>3, <1>5, <2>1 DEF PairIsQueued
  <2>2. CASE q = r
    BY <1>1, <1>2, <1>3, <1>5, <2>2 DEF PairIsQueued
  <2>3. CASE p # r /\ q # r
    BY <1>3, <1>5, <2>3 DEF MatchInv, PairsOK
  <2> QED
    BY <2>1, <2>2, <2>3
<1>10. FirstOK'
  <2> SUFFICES ASSUME NEW p \in Request, NEW q \in Request, Older(p, q)',
                      req'[p].dst = req'[q].dst, q # r
               PROVE  ~Processed(q)'
    BY <1>7 DEF FirstOK
  <2>1. Older(p, q)
    BY <1>5
  <2>2. p # r
    BY <1>4, <2>1, QueuePositions DEF Older, Listed, MatchInv
  <2> QED
    BY <1>3, <1>6, <2>1, <2>2 DEF MatchInv, FirstOK
<1>11. /\ \A g \in FramesOf(callStack) : g \in Frame /\ Spent(g) /\ Truthful(g)
       /\ ~Running("NotifyCompletion") /\ ~InFolderCall
  BY <1>2, FramesWhenEntered
<1>12. ASSUME NEW g \in FramesOf(callStack) PROVE Spent(g)' /\ Truthful(g)'
  <2>1. Spent(g)'
    <3> SUFFICES ASSUME g.op = "NotifyCompletion", NEW q \in Request, Listed(q)'
                 PROVE  ~Matches(q, g.key)'
      BY <1>11 DEF Spent, Genuine
    <3>1. CASE q # r
      BY <1>5, <1>6, <1>11, <3>1 DEF Spent
    <3>2. CASE q = r
      <4>1. ~(g.key.src = src /\ dst \in {g.key.dst, g.key.parent})
        <5>1. \E k \in 1..Len(callStack) : callStack[k] = g
          BY DEF FramesOf
        <5>2. DOMAIN callStack = 1..Len(callStack)
          BY LenProperties DEF MatchInv, Inv, TypeOK
        <5> QED
          BY <1>2, <5>1, <5>2 DEF PairIsCompleting
      <4> QED
        BY <1>1, <1>3, <3>2, <4>1 DEF Matches, SameSource
    <3> QED
      BY <3>1, <3>2
  <2>2. Truthful(g)'
    <3> SUFFICES ASSUME g.op = "OnStopCopy" PROVE Truthful(g)'
      BY DEF Truthful
    <3>1. g.r \in Request
      BY <1>11 DEF Frame
    <3>2. g.r # r
      BY <1>2, <1>11 DEF Truthful
    <3> QED
      BY <1>2, <1>3, <1>6, <1>11, <3>1, <3>2 DEF Truthful
  <2> QED
    BY <2>1, <2>2
<1> PICK f \in Frame : f = [op |-> "DoNextCopy"] /\ f.op = "DoNextCopy"
  BY DoNextCopyFrame
<1> PICK stack \in Seq(Frame) : stack = callStack
  BY DEF MatchInv, Inv, TypeOK
<1>13. \/ CopyImmediately(new) /\ callStack' = Push(stack, f)
       \/ ~CopyImmediately(new) /\ callStack' = callStack
  BY <1>2 DEF DoCopy
<1>14. /\ FramesOK'
       /\ ~Running("NotifyCompletion")' /\ ~InFolderCall'
  <2>1. CASE callStack' = Push(stack, f)
    <3>1. Push(stack, f) # <<>> /\ Head(Push(stack, f)) = f /\ Tail(Push(stack, f)) = stack
      BY PushShape
    <3>2. callStack' # <<>> /\ Top' = f /\ Below' = FramesOf(callStack)
      BY <2>1, <3>1 DEF Top, Below, FramesOf
    <3>3. Truthful(Top)'
      BY <3>2 DEF Truthful
    <3> QED
      BY <1>12, <3>2, <3>3 DEF FramesOK, Spent, Truthful, Running, InFolderCall
  <2>2. CASE callStack' = callStack
    <3>1. ~Running("NotifyCompletion")' /\ ~InFolderCall'
      BY <1>11, <2>2 DEF Running, InFolderCall, Top
    <3>2. CASE callStack = <<>>
      BY <2>2, <3>1, <3>2 DEF FramesOK, Below
    <3>3. CASE callStack # <<>>
      <4>1. Head(stack) \in FramesOf(stack) /\ FramesOf(Tail(stack)) \subseteq FramesOf(stack)
        BY <3>3, FramesOfTail
      <4>2. Top' = Head(stack) /\ Below' = FramesOf(Tail(stack))
        BY <2>2, <3>3 DEF Top, Below, FramesOf
      <4>3. Truthful(Top)'
        BY <1>12, <4>1, <4>2 DEF Truthful
      <4> QED
        BY <1>12, <3>1, <4>1, <4>2, <4>3 DEF FramesOK, Spent, Truthful
    <3> QED
      BY <3>2, <3>3
  <2> QED
    BY <1>13, <2>1, <2>2
<1>15. Active = inFlight /\ Active' = inFlight
  BY <1>2, <1>11, <1>14, ActiveIsKnown DEF MatchInv, ActiveIs
<1>16. ActiveOK'
  <2> SUFFICES ASSUME NEW a \in inFlight
               PROVE  Listed(a[1])' /\ Processed(a[1])' /\ a = OpOf(a[1])'
    BY <1>14, <1>15 DEF ActiveOK
  <2>1. Listed(a[1]) /\ Processed(a[1]) /\ a = OpOf(a[1])
    BY <1>15 DEF MatchInv, ActiveOK
  <2>2. a[1] \in Request /\ a[1] # r
    BY <1>4, <2>1 DEF MatchInv, Inv, TypeOK
  <2> QED
    BY <1>5, <1>6, <2>1, <2>2
<1>17. TopOK' /\ ToBeIdle' = 0
  BY <1>14 DEF TopOK, ToBeIdle, Awaited, Completing
<1>18. CopiedOK'
  <2> SUFFICES ASSUME NEW c \in copied
               PROVE  req'[c[1]] # NotCreated /\ ~Listed(c[1])'
    BY <1>2 DEF CopiedOK
  <2>1. c[1] \in Request /\ req[c[1]] # NotCreated /\ ~Listed(c[1])
    BY <1>11, NotCompleting
  <2>2. c[1] # r
    BY <1>2, <2>1
  <2> QED
    BY <1>3, <1>5, <2>1, <2>2
<1>19. BegunOK'
  <2> SUFFICES ASSUME EndsAreTold, NEW q \in Request, Listed(q)', Processed(q)'
               PROVE  OpOf(q)' \in Active'
    BY DEF BegunOK, EndsAreTold
  <2>1. q # r /\ Listed(q) /\ Processed(q) /\ OpOf(q)' = OpOf(q)
    BY <1>5, <1>6, <1>7
  <2>2. OpOf(q) \in Active
    BY <1>11, <2>1, NotCompleting
  <2> QED
    BY <1>15, <2>1, <2>2
<1>20. ASSUME NEW g \in Idle', g # dst PROVE g \in Idle
  <2>1. /\ g \in Folder
        /\ \E q \in Request : Listed(q)' /\ req'[q].dst = g
        /\ \A q \in Request : Listed(q)' /\ req'[q].dst = g => ~Processed(q)'
    BY DEF Idle
  <2>2. \E q \in Request : Listed(q) /\ req[q].dst = g
    BY <1>1, <1>3, <1>5, <1>20, <2>1
  <2>3. \A q \in Request : Listed(q) /\ req[q].dst = g => ~Processed(q)
    BY <1>3, <1>4, <1>5, <1>6, <2>1
  <2> QED
    BY <2>1, <2>2, <2>3 DEF Idle
<1>21. ASSUME ~CopyImmediately(new), dst \in Idle' PROVE dst \in Idle
  <2>1. \A q \in Request : Listed(q)' /\ req'[q].dst = dst => ~Processed(q)'
    BY <1>21 DEF Idle
  <2>2. \E q \in Request : Listed(q) /\ req[q].dst = dst
    <3>1. PICK i \in DOMAIN m_copyRequests : req[m_copyRequests[i]].dst = new.dst
      BY <1>21 DEF CopyImmediately
    <3> QED
      BY <1>1, <3>1, QueuePositions DEF MatchInv
  <2>3. \A q \in Request : Listed(q) /\ req[q].dst = dst => ~Processed(q)
    BY <1>3, <1>4, <1>5, <1>6, <2>1
  <2> QED
    BY <2>2, <2>3 DEF Idle
<1>22. IdleOK'
  <2> SUFFICES ASSUME EndsAreTold
               PROVE  /\ IsFiniteSet(Idle)'
                      /\ Cardinality(Idle)' + ToBeIdle'
                           <= Cardinality(Looking(callStack))'
    BY DEF IdleOK, EndsAreTold
  <2> PICK idle : idle = Idle
    OBVIOUS
  <2>1. IsFiniteSet(idle) /\ Cardinality(idle) + 0 <= Cardinality(Looking(stack))
    BY <1>11, NotCompleting DEF MatchInv, IdleOK
  <2>2. Cardinality(idle) \in Nat /\ Cardinality(Looking(stack)) \in Nat
    BY <2>1, FS_CardinalityType, LookingFinite
  <2>3. CASE CopyImmediately(new) /\ callStack' = Push(stack, f)
    <3>1. /\ IsFiniteSet(idle \cup {dst})
          /\ Cardinality(idle \cup {dst}) =
               IF dst \in idle THEN Cardinality(idle) ELSE Cardinality(idle) + 1
      BY <2>1, FS_AddElement
    <3>2. Idle' \subseteq idle \cup {dst}
      BY <1>20
    <3>3. IsFiniteSet(Idle') /\ Cardinality(Idle') <= Cardinality(idle \cup {dst})
      BY <3>1, <3>2, FS_Subset
    <3>4. Cardinality(Idle') \in Nat
      BY <3>3, FS_CardinalityType
    <3>5. Cardinality(Looking(Push(stack, f))) = Cardinality(Looking(stack)) + 1
      BY PushLooking DEF Looks
    <3>6. Looking(callStack)' = Looking(Push(stack, f))
      BY <2>3 DEF Looking, Looks
    <3> QED
      BY <1>17, <2>1, <2>2, <3>1, <3>3, <3>4, <3>5, <3>6
  <2>4. CASE ~CopyImmediately(new) /\ callStack' = callStack
    <3>1. Idle' \subseteq idle
      BY <1>20, <1>21, <2>4
    <3>2. IsFiniteSet(Idle') /\ Cardinality(Idle') <= Cardinality(idle)
      BY <2>1, <3>1, FS_Subset
    <3>3. Cardinality(Idle') \in Nat
      BY <3>2, FS_CardinalityType
    <3>4. Looking(callStack)' = Looking(stack)
      BY <2>4 DEF Looking, Looks
    <3> QED
      BY <1>17, <2>1, <2>2, <3>2, <3>3, <3>4
  <2> QED
    BY <1>13, <2>3, <2>4
<1> QED
  BY <1>8, <1>9, <1>10, <1>14, <1>16, <1>17, <1>18, <1>19, <1>22 DEF MatchInv

LEMMA CopyNoMessagesStep ==
  ASSUME MatchInv, Inv', ActiveIs', NEW r \in Request, CopyNoMessages(r)
  PROVE  MatchInv'
<1>1. /\ MayCall /\ req[r] = NotCreated
      /\ UNCHANGED <<m_copyRequests, inFlight, copied, undoBatches, alive>>
  BY DEF CopyNoMessages, IsNext
<1>2. /\ req'[r] # NotCreated /\ SourcesToCopy(r)' = {}
      /\ \A q \in Request \ {r} : req'[q] = req[q]
  <2>1. PICK src \in Folder, dst \in Folder :
          req' = [req EXCEPT ![r] = NewRequest("messages", src, dst, <<>>)]
    BY DEF CopyNoMessages
  <2> PICK new : new = NewRequest("messages", src, dst, <<>>)
    OBVIOUS
  <2>2. req'[r] = new /\ \A q \in Request \ {r} : req'[q] = req[q]
    BY <2>1 DEF MatchInv, Inv, TypeOK
  <2>3. new.type = "messages" /\ new.sources = <<>> /\ new # NotCreated
    BY DEF NewRequest, NotCreated
  <2> QED
    BY <2>2, <2>3 DEF SourcesToCopy
<1>3. ~Listed(r)
  BY <1>1, ListedIsCreated DEF MatchInv
<1>4. AllKept /\ ProgressKept
  <2>1. AllKept
    BY <1>1, <1>2 DEF AllKept, Kept
  <2>2. \A q \in Request \ {r} : Processed(q)' <=> Processed(q)
    BY <1>2 DEF Processed, AllSourcesProcessed
  <2> QED
    BY <1>3, <2>1, <2>2 DEF ProgressKept
<1>5. NoneAdded /\ \A q \in Request : Listed(q)' <=> Listed(q)
  BY <1>1, <1>4, SameQueue DEF MatchInv
<1>6. SinglesOK' /\ PairsOK'
  BY <1>4, <1>5, NoneAddedKeeps DEF MatchInv
<1>7. FirstOK' /\ Idle' = Idle
  BY <1>1, <1>4, NothingMoves DEF MatchInv
<1>8. /\ \A g \in FramesOf(callStack) : g \in Frame /\ Spent(g) /\ Truthful(g)
      /\ ~Running("NotifyCompletion") /\ ~InFolderCall
  BY <1>1, FramesWhenEntered
<1> PICK h : h = [op |-> "OnStopCopy", r |-> r, ok |-> TRUE]
  OBVIOUS
<1>9. h \in Frame /\ h.op = "OnStopCopy" /\ h.r = r
  <2>1. h \in [op : {"OnStopCopy"}, r : Request, ok : BOOLEAN]
    OBVIOUS
  <2> QED
    BY <2>1 DEF Frame
<1> PICK stack \in Seq(Frame) : stack = callStack
  BY DEF MatchInv, Inv, TypeOK
<1>10. callStack' = Push(stack, h)
  BY DEF CopyNoMessages
<1>11. FramesOK' /\ Top' = h
  <2>1. Truthful(h)'
    BY <1>2, <1>9 DEF Truthful
  <2>2. KeepsFrames
    BY <1>1, <1>4, <1>5 DEF KeepsFrames
  <2> QED
    BY <1>8, <1>9, <1>10, <2>1, <2>2, AfterPush DEF MatchInv
<1>12. ~Running("NotifyCompletion")' /\ ~InFolderCall'
  BY <1>9, <1>11 DEF Running, InFolderCall
<1>13. Active' = Active
  BY <1>1, <1>8, <1>12, ActiveIsKnown DEF MatchInv, ActiveIs
<1>14. ActiveOK'
  <2>1. \A a \in Active' : Listed(a[1])' /\ Processed(a[1])' /\ a = OpOf(a[1])'
    BY <1>1, <1>4, <1>13, ActiveKept
  <2> QED
    BY <2>1, <1>12 DEF ActiveOK
<1>15. TopOK' /\ ToBeIdle' = 0
  BY <1>12 DEF TopOK, ToBeIdle, Awaited, Completing
<1>16. CopiedOK'
  <2> SUFFICES ASSUME NEW c \in copied
               PROVE  req'[c[1]] # NotCreated /\ ~Listed(c[1])'
    BY <1>1 DEF CopiedOK
  <2>1. c[1] \in Request /\ req[c[1]] # NotCreated /\ ~Listed(c[1])
    BY <1>8, NotCompleting
  <2> QED
    BY <1>4, <1>5, <2>1 DEF AllKept, Kept
<1>17. BegunOK'
  <2> SUFFICES ASSUME EndsAreTold, NEW q \in Request, Listed(q)', Processed(q)'
               PROVE  OpOf(q)' \in Active'
    BY DEF BegunOK, EndsAreTold
  <2>1. Listed(q) /\ Processed(q)
    BY <1>4, <1>5 DEF ProgressKept
  <2>2. OpOf(q) \in Active
    BY <1>8, <2>1, NotCompleting
  <2>3. Kept(q)
    BY <1>4, <2>1, ListedIsCreated DEF AllKept, MatchInv
  <2>4. OpOf(q)' = OpOf(q)
    BY <2>3, KeptFacts
  <2> QED
    BY <1>13, <2>2, <2>4
<1>18. IdleOK'
  <2>1. Cardinality(Looking(Push(stack, h))) = Cardinality(Looking(stack)) + 0
    BY <1>9, PushLooking DEF Looks
  <2>2. Looking(callStack)' = Looking(Push(stack, h))
    BY <1>10 DEF Looking, Looks
  <2>3. ToBeIdle = 0
    BY <1>8, NotCompleting
  <2>4. Cardinality(Looking(stack)) \in Nat
    BY LookingFinite
  <2> QED
    BY <1>7, <1>15, <2>1, <2>2, <2>3, <2>4 DEF MatchInv, IdleOK, EndsAreTold
<1> QED
  BY <1>6, <1>7, <1>11, <1>14, <1>15, <1>16, <1>17, <1>18 DEF MatchInv

(* The three calls with something to copy submit a single request.         *)
Submits(r, type, src, dst, sources) ==
  /\ Single(NewRequest(type, src, dst, sources))
  /\ Submit(r, type, src, dst, sources)

LEMMA CallSubmits ==
  ASSUME Ordinary, NEW r \in Request,
         CopyMessages(r) \/ CopyFolders(r) \/ CopyFileMessage(r)
  PROVE  \E type \in {"messages", "folders", "file"}, dst \in Folder :
           \E src, sources : Submits(r, type, src, dst, sources)
<1>1. CASE CopyMessages(r)
  <2>1. PICK src \in Folder, dst \in Folder :
          \E sources \in Groupings(src) :
            src # dst /\ Submit(r, "messages", src, dst, sources)
    BY <1>1 DEF CopyMessages
  <2>2. PICK sources \in Groupings(src) :
            src # dst /\ Submit(r, "messages", src, dst, sources)
    BY <2>1
  <2>3. sources = <<src>>
    <3>1. /\ sources \in UNION {[1..n -> Folder] : n \in 1..MaxSources}
          /\ \E i \in DOMAIN sources : sources[i] = src
      BY DEF Groupings
    <3>2. PICK n \in 1..MaxSources : sources \in [1..n -> Folder]
      BY <3>1
    <3>3. n = 1
      BY <3>2 DEF Ordinary
    <3>4. DOMAIN sources = 1..1
      BY <3>2, <3>3
    <3>5. sources[1] = src
      BY <3>1, <3>4
    <3>6. \A f \in [1..1 -> Folder] : f \in Seq(Folder)
      BY SeqDef, 1 \in Nat
    <3>7. sources \in Seq(Folder) /\ Len(sources) = 1
      BY <3>2, <3>3, <3>4, <3>6, LenProperties
    <3>8. <<src>> \in Seq(Folder) /\ Len(<<src>>) = 1 /\ <<src>>[1] = src
      OBVIOUS
    <3> QED
      BY <3>5, <3>7, <3>8, SeqEqual
  <2>4. Single(NewRequest("messages", src, dst, sources))
    BY <2>2, <2>3 DEF Single, NewRequest
  <2> QED
    BY <2>2, <2>4 DEF Submits
<1>2. CASE CopyFolders(r)
  <2>1. PICK src \in Folder, dst \in Folder :
          src # dst /\ Submit(r, "folders", src, dst, <<src>>)
    BY <1>2 DEF CopyFolders
  <2> PICK sources : sources = <<src>>
    OBVIOUS
  <2>2. Submit(r, "folders", src, dst, sources)
    BY <2>1
  <2>3. Single(NewRequest("folders", src, dst, sources))
    BY <2>1 DEF Single, NewRequest
  <2> QED
    BY <2>2, <2>3 DEF Submits
<1>3. CASE CopyFileMessage(r)
  <2>1. PICK file \in File, dst \in Folder, sources \in {<<>>, <<NoFolder>>} :
          Submit(r, "file", file, dst, sources)
    BY <1>3 DEF CopyFileMessage
  <2>2. Single(NewRequest("file", file, dst, sources))
    BY CopyAssumption DEF Single, NewRequest
  <2> QED
    BY <2>1, <2>2 DEF Submits
<1> QED
  BY <1>1, <1>2, <1>3

LEMMA CallStep ==
  ASSUME Ordinary, MatchInv, Inv', ActiveIs', Call
  PROVE  MatchInv'
<1> PICK r \in Request : \/ CopyMessages(r)
                        \/ CopyNoMessages(r)
                        \/ CopyFolders(r)
                        \/ CopyFileMessage(r)
  BY DEF Call
<1>1. CASE CopyNoMessages(r)
  BY <1>1, CopyNoMessagesStep
<1>2. CASE ~CopyNoMessages(r)
  <2>1. PICK type \in {"messages", "folders", "file"}, dst \in Folder :
          \E src, sources : Submits(r, type, src, dst, sources)
    BY <1>2, CallSubmits
  <2>2. PICK src, sources : Submits(r, type, src, dst, sources)
    BY <2>1
  <2> QED
    BY <2>2, SubmitStep DEF Submits
<1> QED
  BY <1>1, <1>2

-----------------------------------------------------------------------------
(* The invariant holds.                                                    *)

LEMMA StutterStep ==
  ASSUME MatchInv, UNCHANGED vars
  PROVE  MatchInv'
<1>1. SinglesOK' /\ PairsOK' /\ FirstOK' /\ Inv'
  <2>1. SinglesOK'
    BY DEF MatchInv, vars, SinglesOK, Single, Listed
  <2>2. PairsOK'
    BY DEF MatchInv, vars, PairsOK, Listed
  <2>3. FirstOK'
    BY DEF MatchInv, vars, FirstOK, Older, Processed, AllSourcesProcessed
  <2>4. Inv'
    BY NextInv DEF MatchInv
  <2> QED
    BY <2>1, <2>2, <2>3, <2>4
<1>2. ActiveOK'
  BY DEF MatchInv, vars, ActiveOK, Active, InFolderCall, CurrentOp, Running, Top,
         Listed, Processed, AllSourcesProcessed, OpOf
<1>3. TopOK' /\ ToBeIdle' = ToBeIdle
  BY DEF MatchInv, vars, TopOK, ToBeIdle, Awaited, Completing, Genuine, Running, Top,
         Matches, SameSource, Listed, Processed, AllSourcesProcessed, OpOf, Active
<1>4. FramesOK'
  BY DEF MatchInv, vars, FramesOK, Below, FramesOf, Spent, Truthful, Top, Genuine,
         Matches, SameSource, Listed, SourcesToCopy
<1>5. CopiedOK' /\ BegunOK'
  BY DEF MatchInv, vars, CopiedOK, BegunOK, EndsAreTold, Completing, Running, Top,
         Matches, SameSource, Listed, Processed, AllSourcesProcessed, OpOf, Active
<1>6. Idle' = Idle /\ Looking(callStack)' = Looking(callStack)
  BY DEF vars, Idle, Looking, Looks, Listed, Processed, AllSourcesProcessed
<1>7. IdleOK'
  BY <1>3, <1>6 DEF MatchInv, IdleOK, EndsAreTold
<1> QED
  BY <1>1, <1>2, <1>3, <1>4, <1>5, <1>7 DEF MatchInv

LEMMA NextMatch ==
  ASSUME Ordinary
  PROVE  MatchInv /\ [Next]_vars => MatchInv'
<1>1. MatchInv => Inv
  BY DEF MatchInv
<1>2. MatchInv /\ [Next]_vars => Inv' /\ ActiveIs'
  BY <1>1, NextInv, ActiveIsKnown, PTL
<1> SUFFICES ASSUME MatchInv, Next PROVE MatchInv'
  BY StutterStep
<1>3. Inv' /\ ActiveIs'
  BY <1>2
<1>4. CASE Call
  BY <1>3, <1>4, CallStep
<1>5. CASE Resume
  <2>1. CASE DoNextCopy
    BY <1>3, <2>1, DoNextCopyStartsStep, DoNextCopyFindsNoneStep DEF DoNextCopy
  <2>2. CASE NotifyCompletion
    BY <1>3, <2>2, NotifyCompletionClearsStep, NotifyCompletionEndsStep
       DEF NotifyCompletion
  <2>3. ~FolderTellsAgain
    BY DEF Ordinary, FolderTellsAgain
  <2> QED
    BY <1>3, <1>5, <2>1, <2>2, <2>3, FolderWorksOnStep, FolderNotifiesAtOnceStep,
       FolderRefusesStep, FolderFailsSilentlyStep, FolderCallReturnsStep,
       OnStopCopyReturnsStep DEF Resume
<1>6. ASSUME NEW op \in inFlight,
             \/ FolderNotifies(op)
             \/ FolderEndsSilently(op)
             \/ FolderTellsListener(op)
             \/ AbortFileCopy(op)
      PROVE  MatchInv'
  <2>1. ~AbortFileCopy(op) /\ ~FolderTellsListener(op)
    BY DEF Ordinary, AbortFileCopy, FolderTellsListener
  <2> QED
    BY <1>3, <1>6, <2>1, FolderNotifiesStep, FolderEndsSilentlyStep
<1>7. CASE Destroy
  BY <1>3, <1>7, DestroyStep
<1> QED
  BY <1>4, <1>5, <1>6, <1>7 DEF Next

LEMMA MatchInvAlways ==
  ASSUME Ordinary
  PROVE  Spec => []MatchInv
<1>1. MatchInv /\ [Next]_vars => MatchInv'
  BY NextMatch
<1> QED
  BY <1>1, InitMatch, PTL DEF Spec

-----------------------------------------------------------------------------
(* Results.                                                                *)

(* DoNextCopy never hands a folder an operation while it works on another
   one, in the background or further down the stack, so the assertion of
   nsMsgLocalMailFolder::InitCopyState that no copy is in progress holds for
   what the service starts.                                                *)
THEOREM OneCopyPerTargetAlways ==
  ASSUME Ordinary
  PROVE  Spec => []OneCopyPerTarget
<1>1. MatchInv => OneCopyPerTarget
  <2> SUFFICES ASSUME MatchInv, NEW a \in Active, NEW b \in Active,
                      req[a[1]].dst = req[b[1]].dst
               PROVE  a = b
    BY DEF OneCopyPerTarget
  <2>1. /\ Listed(a[1]) /\ Processed(a[1]) /\ a = OpOf(a[1])
        /\ Listed(b[1]) /\ Processed(b[1]) /\ b = OpOf(b[1])
    BY DEF MatchInv, ActiveOK
  <2>2. /\ DOMAIN m_copyRequests = 1..Len(m_copyRequests)
        /\ Len(m_copyRequests) \in Nat
        /\ \A i \in 1..Len(m_copyRequests) : m_copyRequests[i] \in Request
    BY QueuePositions DEF MatchInv
  <2>3. PICK i \in 1..Len(m_copyRequests) : m_copyRequests[i] = a[1]
    BY <2>1, <2>2 DEF Listed
  <2>4. PICK j \in 1..Len(m_copyRequests) : m_copyRequests[j] = b[1]
    BY <2>1, <2>2 DEF Listed
  <2>5. CASE i = j
    BY <2>1, <2>3, <2>4, <2>5
  <2>6. CASE i < j
    <3>1. Older(a[1], b[1])
      BY <2>2, <2>3, <2>4, <2>6 DEF Older
    <3> QED
      BY <2>1, <2>2, <2>3, <2>4, <3>1 DEF MatchInv, FirstOK
  <2>7. CASE j < i
    <3>1. Older(b[1], a[1])
      BY <2>2, <2>3, <2>4, <2>7 DEF Older
    <3> QED
      BY <2>1, <2>2, <2>3, <2>4, <3>1 DEF MatchInv, FirstOK
  <2> QED
    BY <2>2, <2>5, <2>6, <2>7
<1> QED
  BY <1>1, MatchInvAlways, PTL

(* FindRequest finds the request a completion is for and no other: what a
   folder works on stays listed, a listener hears of success only when its
   source has been copied, and no copied request is left on the queue when
   the UI thread is back in its event loop.                                *)
THEOREM CompletionsAreMatchedAlways ==
  ASSUME Ordinary
  PROVE  Spec => []CompletionsAreMatched
<1>1. MatchInv => CompletionsAreMatched
  <2> SUFFICES ASSUME MatchInv PROVE CompletionsAreMatched
    OBVIOUS
  <2>1. BusyMeansListed
    BY DEF MatchInv, ActiveOK, BusyMeansListed
  <2>2. SuccessMeansCopied
    <3> SUFFICES ASSUME NEW i \in DOMAIN callStack PROVE Truthful(callStack[i])
      BY DEF SuccessMeansCopied, Truthful
    <3>1. callStack \in Seq(Frame) /\ i \in 1..Len(callStack)
      BY LenProperties DEF MatchInv, Inv, TypeOK
    <3>2. callStack # <<>>
      BY <3>1
    <3> PICK rest \in Seq(Frame), f \in Frame :
          f = Top /\ callStack = Push(rest, f) /\ Below = FramesOf(rest)
      BY <3>2, TopOnTail DEF MatchInv
    <3>3. FramesOf(callStack) = FramesOf(rest) \cup {f}
      BY PushShape
    <3>4. callStack[i] \in FramesOf(callStack)
      BY <3>1 DEF FramesOf
    <3> QED
      BY <3>2, <3>3, <3>4 DEF MatchInv, FramesOK
  <2>3. CompletionIsFound
    <3> SUFFICES ASSUME callStack = <<>>, NEW r \in Request, Listed(r)
                 PROVE  \E s \in SourcesToCopy(r) : <<r, s>> \notin copied
      BY DEF CompletionIsFound
    <3>1. SourcesToCopy(r) = {OpOf(r)[2]}
      BY SingleSource DEF MatchInv, SinglesOK
    <3>2. ~Running("NotifyCompletion")
      BY DEF Running
    <3>3. \A op \in copied : ~Listed(op[1])
      BY <3>2, NotCompleting
    <3> QED
      BY <3>1, <3>3
  <2> QED
    BY <2>1, <2>2, <2>3 DEF CompletionsAreMatched
<1> QED
  BY <1>1, MatchInvAlways, PTL

(* When every operation ends in a notification, no request is left waiting
   with nothing going on in its folder, however DoNextCopy, completions and
   listeners nest.                                                         *)
THEOREM QueueNeverStallsAlways ==
  ASSUME Ordinary, EndsAreTold
  PROVE  Spec => []QueueNeverStalls
<1>1. MatchInv => QueueNeverStalls
  <2> SUFFICES ASSUME MatchInv, callStack = <<>>, NEW r \in Request, Listed(r)
               PROVE  \E op \in inFlight : req[op[1]].dst = req[r].dst
    BY DEF QueueNeverStalls
  <2>1. Looking(callStack) = {}
    BY DEF Looking
  <2>2. Idle = {}
    <3>1. IsFiniteSet(Idle) /\ Cardinality(Idle) + ToBeIdle <= 0
      BY <2>1, FS_EmptySet DEF MatchInv, IdleOK
    <3>2. ToBeIdle \in {0, 1} /\ Cardinality(Idle) \in Nat
      BY <3>1, FS_CardinalityType DEF ToBeIdle
    <3>3. Cardinality(Idle) = 0
      BY <3>1, <3>2
    <3> QED
      BY <3>1, <3>3, FS_EmptySet
  <2>3. req[r].dst \in Folder
    BY ListedIsCreated DEF MatchInv
  <2>4. PICK q \in Request : Listed(q) /\ req[q].dst = req[r].dst /\ Processed(q)
    BY <2>2, <2>3 DEF Idle
  <2>5. ~Running("NotifyCompletion") /\ ~InFolderCall
    BY DEF Running, InFolderCall
  <2>6. OpOf(q) \in inFlight
    BY <2>4, <2>5, NotCompleting, ActiveIsKnown DEF MatchInv, ActiveIs
  <2>7. OpOf(q)[1] = q
    BY DEF OpOf
  <2> QED
    BY <2>4, <2>6, <2>7
<1> QED
  BY <1>1, MatchInvAlways, PTL

-----------------------------------------------------------------------------
(* CopyPromise: each step of the service is a step it allows, or hidden.   *)

(* A queued request has been started exactly if it counts as processed.    *)
StartedOK ==
  \A r \in Request :
    /\ req[r] = NotCreated => starts[r] = 0
    /\ Listed(r) => (Processed(r) <=> starts[r] > 0)

(* The queue is in the order of the requests' numbers.                     *)
NumbersOK ==
  \A q, r \in Request :
    /\ Older(q, r) => q < r
    /\ req[r] # NotCreated /\ q < r => req[q] # NotCreated

OrderInv == MatchInv /\ StartedOK /\ NumbersOK

PromiseStep == Promise!Next \/ UNCHANGED Promise!vars

LEMMA RequestNumbers == \A r \in Request : r \in Int
  BY CopyAssumption

(* What the abstract variables say of a request.                           *)
LEMMA StateIs ==
  ASSUME OrderInv, NEW r \in Request
  PROVE  /\ States[r] = "new" <=> req[r] = NotCreated
         /\ Listed(r) => States[r] = IF Processed(r) THEN "copying" ELSE "waiting"
         /\ ~Listed(r) /\ req[r] # NotCreated => States[r] = "stopped"
<1>1. States[r] = State(r)
  BY DEF States
<1>2. stops[r] \in Nat /\ starts[r] \in Nat
  BY DEF OrderInv, MatchInv, Inv, TypeOK
<1>3. Listed(r) <=> req[r] # NotCreated /\ stops[r] = 0
  BY DEF OrderInv, MatchInv, Inv, StoppedOnce
<1>4. Listed(r) => (Processed(r) <=> starts[r] > 0)
  BY DEF OrderInv, StartedOK
<1> QED
  BY <1>1, <1>2, <1>3, <1>4 DEF State

(* The oldest request of a folder is one that no other is before.          *)
LEMMA OldestIs ==
  ASSUME OrderInv, NEW r \in Request, Listed(r), NEW f \in Folder, req[r].dst = f,
         \A q \in Request : Listed(q) /\ req[q].dst = f => ~Older(q, r)
  PROVE  Promise!IsOldest(r, f)
<1>1. Queue[f] = {q \in Request : Listed(q) /\ req[q].dst = f}
  BY DEF Queue
<1>2. ASSUME NEW q \in Request, Listed(q), req[q].dst = f PROVE r <= q
  <2>1. \A p \in Request : Listed(p) =>
          \E i \in 1..Len(m_copyRequests) : m_copyRequests[i] = p
    BY QueuePositions DEF OrderInv, MatchInv, Listed
  <2>2. PICK i \in 1..Len(m_copyRequests) : m_copyRequests[i] = r
    BY <2>1
  <2>3. PICK j \in 1..Len(m_copyRequests) : m_copyRequests[j] = q
    BY <1>2, <2>1
  <2>4. Len(m_copyRequests) \in Nat
    BY QueuePositions DEF OrderInv, MatchInv
  <2>5. ~(j < i)
    <3> SUFFICES ASSUME j < i PROVE FALSE
      OBVIOUS
    <3>1. j \in 1..(i - 1)
      BY <2>4
    <3> QED
      BY <1>2, <2>2, <2>3, <3>1 DEF Older
  <2>6. CASE i = j
    BY <2>2, <2>3, <2>6, RequestNumbers
  <2>7. CASE i < j
    <3>1. i \in 1..(j - 1)
      BY <2>4, <2>7
    <3>2. Older(r, q)
      BY <2>2, <2>3, <3>1 DEF Older
    <3> QED
      BY <3>2, RequestNumbers DEF OrderInv, NumbersOK
  <2> QED
    BY <2>4, <2>5, <2>6, <2>7
<1> QED
  BY <1>1, <1>2 DEF Promise!IsOldest

(* A step that changes neither the queue nor what requests have come to.    *)
LEMMA QuietStep ==
  ASSUME OrderInv, MatchInv', UNCHANGED <<m_copyRequests, starts, stops, alive>>,
         \A q \in Request :
           /\ req[q] = NotCreated <=> req'[q] = NotCreated
           /\ Listed(q) => req'[q].dst = req[q].dst /\ (Processed(q)' <=> Processed(q))
  PROVE  OrderInv' /\ UNCHANGED Promise!vars
<1>1. \A q \in Request : Listed(q)' <=> Listed(q)
  BY DEF Listed
<1>2. \A q, r \in Request : Older(q, r)' <=> Older(q, r)
  BY DEF Older
<1>3. StartedOK'
  BY <1>1 DEF OrderInv, StartedOK
<1>4. NumbersOK'
  BY <1>2 DEF OrderInv, NumbersOK
<1>5. Queue' = Queue
  BY <1>1 DEF Queue
<1>6. States' = States
  BY DEF States, State
<1> QED
  BY <1>3, <1>4, <1>5, <1>6 DEF OrderInv, Promise!vars

(* A request that is told its copy has ended is the oldest of its folder.   *)
LEMMA ClearedPromise ==
  ASSUME OrderInv, MatchInv', NEW r \in Request, Listed(r), Processed(r),
         m_copyRequests' = RemoveFirst(m_copyRequests, r),
         stops' = [stops EXCEPT ![r] = @ + 1],
         UNCHANGED <<req, starts, alive>>
  PROVE  OrderInv' /\ PromiseStep
<1> PICK f \in Folder : f = req[r].dst
  BY ListedIsCreated DEF OrderInv, MatchInv
<1>1. /\ \A q \in Request : Listed(q)' <=> (Listed(q) /\ q # r)
      /\ \A p, q \in Request : Older(p, q)' => Older(p, q)
  BY ClearedQueue DEF OrderInv, MatchInv
<1>2. StartedOK'
  BY <1>1 DEF OrderInv, StartedOK, Processed, AllSourcesProcessed
<1>3. NumbersOK'
  BY <1>1 DEF OrderInv, NumbersOK
<1>4. Promise!IsOldest(r, f)
  <2>1. \A q \in Request : Listed(q) /\ req[q].dst = f => ~Older(q, r)
    BY DEF OrderInv, MatchInv, FirstOK
  <2> QED
    BY <2>1, OldestIs
<1>5. States[r] = "copying"
  BY StateIs
<1>6. States' = [States EXCEPT ![r] = "stopped"]
  <2>1. stops \in [Request -> Nat] /\ req[r] # NotCreated
    BY ListedIsCreated DEF OrderInv, MatchInv, Inv, TypeOK
  <2>2. State(r)' = "stopped"
    BY <2>1 DEF State
  <2>3. \A q \in Request \ {r} : State(q)' = State(q)
    BY <2>1 DEF State
  <2> QED
    BY <2>2, <2>3 DEF States
<1>7. Queue' = [Queue EXCEPT ![f] = @ \ {r}]
  BY <1>1 DEF Queue
<1>8. Promise!Stop(r, f)
  BY <1>4, <1>5, <1>6, <1>7 DEF Promise!Stop
<1> QED
  BY <1>2, <1>3, <1>8 DEF OrderInv, PromiseStep, Promise!Next, Promise!Proceed

LEMMA SubmitPromise ==
  ASSUME OrderInv, MatchInv', NEW r \in Request,
         NEW type \in {"messages", "folders", "file"},
         NEW dst \in Folder, NEW src, NEW sources,
         Submits(r, type, src, dst, sources)
  PROVE  OrderInv' /\ PromiseStep
<1> PICK new : new = NewRequest(type, src, dst, sources)
  OBVIOUS
<1>1. new.dst = dst /\ new # NotCreated
  BY DEF NewRequest, NotCreated
<1>2. /\ ~new.processed
      /\ new.sources # <<>> => ~(DOMAIN new.sources \subseteq new.handled)
  BY NewIsUnprocessed DEF Submits
<1>3. /\ alive /\ req[r] = NotCreated
      /\ \A q \in Request : q < r => req[q] # NotCreated
      /\ req' = [req EXCEPT ![r] = new]
      /\ m_copyRequests' = Append(m_copyRequests, r)
      /\ UNCHANGED <<starts, stops, alive>>
  BY DEF Submits, Submit, MayCall, IsNext, DoCopy
<1>4. req'[r] = new /\ \A q \in Request \ {r} : req'[q] = req[q]
  BY <1>3 DEF OrderInv, MatchInv, Inv, TypeOK
<1>5. /\ \A q \in Request : Listed(q)' <=> (Listed(q) \/ q = r)
      /\ \A p, q \in Request : Older(p, q)' => Older(p, q) \/ q = r
  BY <1>3, AppendedQueue DEF OrderInv, MatchInv
<1>6. ~Listed(r) /\ starts[r] = 0 /\ stops[r] = 0
  BY <1>3, ListedIsCreated DEF OrderInv, StartedOK, MatchInv, Inv, NewOK
<1>7. StartedOK'
  <2> SUFFICES ASSUME NEW q \in Request
               PROVE  /\ req'[q] = NotCreated => starts[q] = 0
                      /\ Listed(q)' => (Processed(q)' <=> starts[q] > 0)
    BY <1>3 DEF StartedOK
  <2>1. CASE q = r
    <3>1. ~Processed(r)'
      BY <1>2, <1>4 DEF Processed, AllSourcesProcessed
    <3> QED
      BY <1>1, <1>4, <1>6, <2>1, <3>1
  <2>2. CASE q # r
    <3>1. Processed(q)' <=> Processed(q)
      BY <1>4, <2>2 DEF Processed, AllSourcesProcessed
    <3> QED
      BY <1>4, <1>5, <2>2, <3>1 DEF OrderInv, StartedOK
  <2> QED
    BY <2>1, <2>2
<1>8. NumbersOK'
  <2> SUFFICES ASSUME NEW p \in Request, NEW q \in Request
               PROVE  /\ Older(p, q)' => p < q
                      /\ req'[q] # NotCreated /\ p < q => req'[p] # NotCreated
    BY DEF NumbersOK
  <2>1. req'[q] # NotCreated /\ p < q => req'[p] # NotCreated
    BY <1>1, <1>3, <1>4 DEF OrderInv, NumbersOK
  <2>2. Older(p, q)' => p < q
    <3> SUFFICES ASSUME Older(p, q)', q = r PROVE p < q
      BY <1>5 DEF OrderInv, NumbersOK
    <3>1. PICK i \in 1..Len(m_copyRequests') : \E j \in 1..(i - 1) : m_copyRequests'[j] = p
      BY DEF Older
    <3> PICK j \in 1..(i - 1) : m_copyRequests'[j] = p
      BY <3>1
    <3>2. m_copyRequests \in Seq(Request) /\ Len(m_copyRequests) \in Nat
      BY QueuePositions DEF OrderInv, MatchInv, Inv, TypeOK
    <3>3. j \in 1..Len(m_copyRequests) /\ m_copyRequests[j] = p
      BY <1>3, <3>1, <3>2
    <3>4. Listed(p)
      BY <3>3, QueuePositions DEF OrderInv, MatchInv
    <3>5. req[p] # NotCreated /\ p # r
      BY <1>6, <3>4, ListedIsCreated DEF OrderInv, MatchInv
    <3> QED
      BY <1>3, <3>5, RequestNumbers DEF OrderInv, NumbersOK
  <2> QED
    BY <2>1, <2>2
<1>9. Promise!IsNext(r)
  BY <1>3, StateIs DEF Promise!IsNext
<1>10. States' = [States EXCEPT ![r] = "waiting"]
  <2>1. State(r)' = "waiting"
    BY <1>1, <1>3, <1>4, <1>6 DEF State
  <2>2. \A q \in Request \ {r} : State(q)' = State(q)
    BY <1>3, <1>4 DEF State
  <2>3. DOMAIN States' = DOMAIN States /\ DOMAIN States = Request
    BY DEF States
  <2>4. \A q \in Request : States'[q] = State(q)' /\ States[q] = State(q)
    BY DEF States
  <2>5. \A q \in Request : States'[q] = [States EXCEPT ![r] = "waiting"][q]
    BY <2>1, <2>2, <2>3, <2>4
  <2> QED
    BY <2>3, <2>5, Zenon DEF States
<1>11. Queue' = [Queue EXCEPT ![dst] = @ \cup {r}]
  <2>1. ASSUME NEW f \in Folder
        PROVE  Queue'[f] = IF f = dst THEN Queue[f] \cup {r} ELSE Queue[f]
    <3>1. \A q \in Request :
            (Listed(q) /\ req[q].dst = f)' <=>
               (Listed(q) /\ req[q].dst = f) \/ (q = r /\ f = dst)
      BY <1>1, <1>4, <1>5, <1>6
    <3>2. Queue'[f] = {q \in Request : (Listed(q) /\ req[q].dst = f)'}
      BY DEF Queue
    <3>3. Queue[f] = {q \in Request : Listed(q) /\ req[q].dst = f}
      BY DEF Queue
    <3> QED
      BY <3>1, <3>2, <3>3
  <2>2. /\ Queue' = [f \in Folder |-> Queue'[f]]
        /\ Queue = [f \in Folder |-> Queue[f]]
    BY DEF Queue
  <2> QED
    BY <2>1, <2>2, Zenon
<1>12. Promise!Submit(r, dst)
  BY <1>3, <1>9, <1>10, <1>11 DEF Promise!Submit
<1>13. Promise!Next
  <2>1. r \in Request /\ dst \in Folder
    OBVIOUS
  <2> QED
    BY ONLY <1>12, <2>1, Zenon DEF Promise!Next
<1>14. OrderInv'
  BY <1>7, <1>8 DEF OrderInv
<1> QED
  BY <1>13, <1>14, Zenon DEF PromiseStep

LEMMA CopyNoMessagesPromise ==
  ASSUME OrderInv, MatchInv', NEW r \in Request, CopyNoMessages(r)
  PROVE  OrderInv' /\ PromiseStep
<1>1. /\ alive /\ req[r] = NotCreated
      /\ \A q \in Request : q < r => req[q] # NotCreated
      /\ starts' = [starts EXCEPT ![r] = @ + 1]
      /\ stops' = [stops EXCEPT ![r] = @ + 1]
      /\ UNCHANGED <<m_copyRequests, alive>>
  BY DEF CopyNoMessages, MayCall, IsNext
<1>2. req'[r] # NotCreated /\ \A q \in Request \ {r} : req'[q] = req[q]
  <2>1. PICK src \in Folder, dst \in Folder :
          req' = [req EXCEPT ![r] = NewRequest("messages", src, dst, <<>>)]
    BY DEF CopyNoMessages
  <2>2. NewRequest("messages", src, dst, <<>>) # NotCreated
    BY DEF NewRequest, NotCreated
  <2> QED
    BY <2>1, <2>2 DEF OrderInv, MatchInv, Inv, TypeOK
<1>3. /\ starts'[r] = 1 /\ stops'[r] = 1
      /\ \A q \in Request \ {r} : starts'[q] = starts[q] /\ stops'[q] = stops[q]
  BY <1>1 DEF OrderInv, StartedOK, MatchInv, Inv, TypeOK, NewOK
<1>4. /\ ~Listed(r)
      /\ \A q \in Request : Listed(q)' <=> Listed(q)
      /\ \A p, q \in Request : Older(p, q)' <=> Older(p, q)
  BY <1>1, ListedIsCreated DEF OrderInv, MatchInv, Listed, Older
<1>5. StartedOK'
  <2>1. \A q \in Request \ {r} : Processed(q)' <=> Processed(q)
    BY <1>2 DEF Processed, AllSourcesProcessed
  <2> QED
    BY <1>2, <1>3, <1>4, <2>1 DEF OrderInv, StartedOK
<1>6. NumbersOK'
  BY <1>1, <1>2, <1>4 DEF OrderInv, NumbersOK
<1>7. Promise!IsNext(r)
  BY <1>1, StateIs DEF Promise!IsNext
<1>8. States' = [States EXCEPT ![r] = "stopped"]
  <2>1. State(r)' = "stopped"
    BY <1>2, <1>3 DEF State
  <2>2. \A q \in Request \ {r} : State(q)' = State(q)
    BY <1>2, <1>3 DEF State
  <2> QED
    BY <2>1, <2>2 DEF States
<1>9. Queue' = Queue
  BY <1>2, <1>4 DEF Queue
<1>10. Promise!SubmitNothing(r)
  BY <1>1, <1>7, <1>8, <1>9 DEF Promise!SubmitNothing
<1> QED
  BY <1>5, <1>6, <1>10 DEF OrderInv, PromiseStep, Promise!Next

LEMMA DoNextCopyPromise ==
  ASSUME OrderInv, MatchInv', DoNextCopy
  PROVE  OrderInv' /\ PromiseStep
<1>1. UNCHANGED <<m_copyRequests, stops, alive>>
  BY DEF DoNextCopy
<1>2. CASE DoNextCopyFindsNone
  <2>1. UNCHANGED starts /\ req' = MarkScanned(Len(m_copyRequests))
    BY <1>2 DEF DoNextCopyFindsNone
  <2>2. \A q \in Request : SameRequest(req[q], req'[q])
    <3>1. Len(m_copyRequests) \in Int
      BY QueuePositions DEF OrderInv, MatchInv
    <3> QED
      BY <2>1, <3>1, MarkScannedKeeps DEF OrderInv, MatchInv
  <2>3. \A q \in Request : req[q] = NotCreated <=> req'[q] = NotCreated
    BY <2>2 DEF SameRequest, CopyRequest, NotCreated
  <2>4. \A q \in Request : Listed(q) =>
          req'[q].dst = req[q].dst /\ (Processed(q)' <=> Processed(q))
    BY <2>1, ScannedKeeps, ListedIsCreated DEF OrderInv, MatchInv, Kept
  <2> QED
    BY <1>1, <2>1, <2>3, <2>4, QuietStep DEF PromiseStep
<1>3. ASSUME NEW i \in DOMAIN m_copyRequests, NEW s \in 0..MaxSources,
             DoNextCopyStarts(i, s)
      PROVE  OrderInv' /\ PromiseStep
  <2>1. PICK r : r = m_copyRequests[i]
    OBVIOUS
  <2>2. /\ r \in Request /\ Listed(r) /\ ~Processed(r)
        /\ <<r, s>> = OpOf(r)
        /\ \A q \in Request : Listed(q) /\ req[q].dst = req[r].dst => ~Older(q, r)
    BY <1>3, <2>1, StartsTheOldest DEF DoNextCopyStarts, OrderInv
  <2>3. /\ starts' = [starts EXCEPT ![r] = @ + 1]
        /\ req' = StartSource(r, s, MarkScanned(i - 1))
    BY <1>3, <2>1 DEF DoNextCopyStarts
  <2>4. i - 1 \in Int /\ i - 1 <= Len(m_copyRequests)
    BY QueuePositions DEF OrderInv, MatchInv
  <2>5. /\ AllKept
        /\ Processed(r)'
        /\ \A q \in Request \ {r} : Listed(q) => (Processed(q)' <=> Processed(q))
    <3> PICK n : n = i - 1
      OBVIOUS
    <3> QED
      BY <2>2, <2>3, <2>4, StartKeeps DEF OrderInv
  <2>6. \A q \in Request : req[q] = NotCreated <=> req'[q] = NotCreated
    <3>1. \A q \in Request \ {r} : SameRequest(req[q], req'[q])
      <4>1. /\ MarkScanned(i - 1) \in [Request -> CopyRequest \cup {NotCreated}]
            /\ \A q \in Request : SameRequest(req[q], MarkScanned(i - 1)[q])
        BY <2>4, MarkScannedKeeps DEF OrderInv, MatchInv
      <4> PICK scanned : scanned = MarkScanned(i - 1)
        OBVIOUS
      <4> QED
        BY <2>3, <4>1 DEF StartSource
    <3>2. \A q \in Request \ {r} : req[q] = NotCreated => req'[q] = NotCreated
      BY <3>1 DEF SameRequest, CopyRequest, NotCreated
    <3>3. req[r] # NotCreated
      BY <2>2, ListedIsCreated DEF OrderInv, MatchInv
    <3> QED
      BY <2>5, <3>2, <3>3 DEF AllKept, Kept
  <2>7. \A q \in Request : Listed(q) => req'[q].dst = req[q].dst
    BY <2>5, ListedIsCreated DEF OrderInv, MatchInv, AllKept, Kept
  <2>8. /\ starts[r] = 0 /\ starts'[r] = 1
        /\ \A q \in Request \ {r} : starts'[q] = starts[q]
    BY <2>2, <2>3 DEF OrderInv, StartedOK, MatchInv, Inv, TypeOK
  <2>9. /\ \A q \in Request : Listed(q)' <=> Listed(q)
        /\ \A p, q \in Request : Older(p, q)' <=> Older(p, q)
    BY <1>1 DEF Listed, Older
  <2>10. StartedOK'
    <3>1. req[r] # NotCreated
      BY <2>2, ListedIsCreated DEF OrderInv, MatchInv
    <3> QED
      BY <2>5, <2>6, <2>8, <2>9, <3>1 DEF OrderInv, StartedOK
  <2>11. NumbersOK'
    BY <2>6, <2>9 DEF OrderInv, NumbersOK
  <2> PICK f \in Folder : f = req[r].dst
    BY <2>2, ListedIsCreated DEF OrderInv, MatchInv
  <2>12. Promise!IsOldest(r, f)
    BY <2>2, OldestIs
  <2>13. States[r] = "waiting"
    BY <2>2, StateIs
  <2>14. States' = [States EXCEPT ![r] = "copying"]
    <3>1. State(r)' = "copying"
      <4>1. req[r] # NotCreated /\ stops[r] = 0
        BY <2>2 DEF OrderInv, MatchInv, Inv, StoppedOnce
      <4> QED
        BY <1>1, <2>2, <2>6, <2>8, <4>1 DEF State
    <3>2. \A q \in Request \ {r} : State(q)' = State(q)
      BY <1>1, <2>6, <2>8 DEF State
    <3> QED
      BY <3>1, <3>2 DEF States
  <2>15. Queue' = Queue
    BY <2>7, <2>9 DEF Queue
  <2>16. Promise!Start(r, f)
    BY <1>1, <2>12, <2>13, <2>14, <2>15 DEF Promise!Start
  <2> QED
    BY <2>2, <2>10, <2>11, <2>16 DEF OrderInv, PromiseStep, Promise!Next, Promise!Proceed
<1> QED
  BY <1>2, <1>3 DEF DoNextCopy

LEMMA ClearPromise ==
  ASSUME OrderInv, MatchInv',
         FolderRefuses \/ (NotifyCompletion /\ ~NotifyCompletionEnds)
  PROVE  OrderInv' /\ PromiseStep
<1>1. CASE FolderRefuses
  <2>1. InFolderCall /\ callStack # <<>>
    BY <1>1 DEF FolderRefuses, InFolderCall, Running
  <2>2. PICK r : r = Top.r
    OBVIOUS
  <2>3. CurrentOp \in Active /\ CurrentOp[1] = r
    BY <2>1, <2>2, ActiveIsKnown DEF OrderInv, MatchInv, ActiveIs, CurrentOp
  <2>4. r \in Request
    BY <2>1, <2>2, TopOnTail DEF OrderInv, MatchInv, Frame, InFolderCall, Running
  <2>5. Listed(r) /\ Processed(r)
    BY <2>3 DEF OrderInv, MatchInv, ActiveOK
  <2>6. /\ m_copyRequests' = RemoveFirst(m_copyRequests, r)
        /\ stops' = [stops EXCEPT ![r] = @ + 1]
        /\ UNCHANGED <<req, starts, alive>>
    BY <1>1, <2>2 DEF FolderRefuses, ClearRequest
  <2> QED
    BY <2>4, <2>5, <2>6, ClearedPromise
<1>2. CASE NotifyCompletion /\ ~NotifyCompletionEnds
  <2>1. Running("NotifyCompletion") /\ NotifyCompletionClears
    BY <1>2 DEF NotifyCompletion
  <2>2. PICK i \in DOMAIN m_copyRequests :
          /\ ToClear(i)
          /\ ClearRequest(m_copyRequests[i], Top.ok,
                          Push(Tail(callStack), [Top EXCEPT !.num = @ - 1]))
    BY <2>1 DEF NotifyCompletionClears
  <2>3. PICK r : r = m_copyRequests[i]
    OBVIOUS
  <2>4. r \in Request /\ Listed(r) /\ Processed(r)
    BY <2>1, <2>2, <2>3, ClearsTheMatch DEF OrderInv
  <2>5. /\ m_copyRequests' = RemoveFirst(m_copyRequests, r)
        /\ stops' = [stops EXCEPT ![r] = @ + 1]
        /\ UNCHANGED <<req, starts, alive>>
    BY <1>2, <2>2, <2>3 DEF NotifyCompletion, ClearRequest
  <2> QED
    BY <2>4, <2>5, ClearedPromise
<1> QED
  BY <1>1, <1>2

LEMMA DestroyPromise ==
  ASSUME OrderInv, MatchInv', Destroy
  PROVE  OrderInv' /\ PromiseStep
<1>1. /\ alive /\ ~alive'
      /\ stops' = [r \in Request |-> IF Listed(r) THEN stops[r] + 1 ELSE stops[r]]
      /\ m_copyRequests' = <<>>
      /\ UNCHANGED <<req, starts>>
  BY DEF Destroy
<1>2. /\ \A q \in Request : ~Listed(q)'
      /\ \A p, q \in Request : ~Older(p, q)'
  BY <1>1 DEF Listed, Older
<1>3. StartedOK'
  BY <1>1, <1>2 DEF OrderInv, StartedOK
<1>4. NumbersOK'
  BY <1>1, <1>2 DEF OrderInv, NumbersOK
<1>5. Queue' = [f \in Folder |-> {}]
  BY <1>2 DEF Queue
<1>6. States' = [r \in Request |-> IF States[r] \in {"waiting", "copying"}
                                     THEN "stopped" ELSE States[r]]
  <2> SUFFICES ASSUME NEW r \in Request
               PROVE  State(r)' = IF States[r] \in {"waiting", "copying"}
                                    THEN "stopped" ELSE States[r]
    BY DEF States
  <2>1. stops[r] \in Nat
    BY DEF OrderInv, MatchInv, Inv, TypeOK
  <2>2. CASE Listed(r)
    <3>1. req[r] # NotCreated
      BY <2>2, ListedIsCreated DEF OrderInv, MatchInv
    <3>2. State(r)' = "stopped"
      BY <1>1, <2>1, <2>2, <3>1 DEF State
    <3> QED
      BY <2>2, <3>2, StateIs
  <2>3. CASE ~Listed(r)
    <3>1. State(r)' = States[r]
      BY <1>1, <2>3 DEF State, States
    <3>2. States[r] \in {"new", "stopped"}
      BY <2>3, StateIs
    <3> QED
      BY <3>1, <3>2
  <2> QED
    BY <2>2, <2>3
<1>7. Promise!Exit
  BY <1>1, <1>5, <1>6 DEF Promise!Exit
<1> QED
  BY <1>3, <1>4, <1>7 DEF OrderInv, PromiseStep, Promise!Next

(* The steps the abstract service does not see.                            *)
LEMMA HiddenPromise ==
  ASSUME OrderInv, MatchInv',
         UNCHANGED <<m_copyRequests, req, starts, stops, alive>>
  PROVE  OrderInv' /\ PromiseStep
<1>1. \A q \in Request : Processed(q)' <=> Processed(q)
  BY DEF Processed, AllSourcesProcessed
<1> QED
  BY <1>1, QuietStep DEF PromiseStep

LEMMA NextOrder ==
  ASSUME Ordinary
  PROVE  OrderInv /\ [Next]_vars => OrderInv' /\ PromiseStep
<1> SUFFICES ASSUME OrderInv, [Next]_vars PROVE OrderInv' /\ PromiseStep
  OBVIOUS
<1>1. MatchInv'
  BY NextMatch DEF OrderInv
<1>2. CASE UNCHANGED vars
  BY <1>1, <1>2, HiddenPromise DEF vars
<1>3. CASE Call
  <2> PICK r \in Request : \/ CopyMessages(r)
                          \/ CopyNoMessages(r)
                          \/ CopyFolders(r)
                          \/ CopyFileMessage(r)
    BY <1>3 DEF Call
  <2>1. CASE CopyNoMessages(r)
    BY <1>1, <2>1, CopyNoMessagesPromise
  <2>2. CASE ~CopyNoMessages(r)
    <3>1. PICK type \in {"messages", "folders", "file"}, dst \in Folder :
            \E src, sources : Submits(r, type, src, dst, sources)
      BY <2>2, CallSubmits
    <3>2. PICK src, sources : Submits(r, type, src, dst, sources)
      BY <3>1
    <3> QED
      BY <1>1, <3>2, SubmitPromise
  <2> QED
    BY <2>1, <2>2
<1>4. CASE Resume
  <2>1. CASE DoNextCopy
    BY <1>1, <2>1, DoNextCopyPromise
  <2>2. CASE FolderRefuses \/ (NotifyCompletion /\ ~NotifyCompletionEnds)
    BY <1>1, <2>2, ClearPromise
  <2>3. CASE \/ FolderWorksOn \/ FolderNotifiesAtOnce \/ FolderFailsSilently
             \/ FolderTellsAgain \/ FolderCallReturns \/ OnStopCopyReturns
             \/ (NotifyCompletion /\ NotifyCompletionEnds)
    <3>1. UNCHANGED <<m_copyRequests, req, starts, stops, alive>>
      BY <2>3 DEF FolderWorksOn, FolderNotifiesAtOnce, FolderFailsSilently,
                  FolderTellsAgain, FolderCallReturns, OnStopCopyReturns,
                  NotifyCompletion, NotifyCompletionEnds
    <3> QED
      BY <1>1, <3>1, HiddenPromise
  <2> QED
    BY <1>4, <2>1, <2>2, <2>3 DEF Resume
<1>5. ASSUME NEW op \in inFlight,
             \/ FolderNotifies(op)
             \/ FolderEndsSilently(op)
             \/ FolderTellsListener(op)
             \/ AbortFileCopy(op)
      PROVE  OrderInv' /\ PromiseStep
  <2>1. UNCHANGED <<m_copyRequests, req, starts, stops, alive>>
    BY <1>5 DEF FolderNotifies, FolderEndsSilently, FolderTellsListener,
                AbortFileCopy
  <2> QED
    BY <1>1, <2>1, HiddenPromise
<1>6. CASE Destroy
  BY <1>1, <1>6, DestroyPromise
<1> QED
  BY <1>2, <1>3, <1>4, <1>5, <1>6 DEF Next

LEMMA InitOrder == Init => OrderInv /\ Promise!Init
<1> SUFFICES ASSUME Init PROVE OrderInv /\ Promise!Init
  OBVIOUS
<1>1. MatchInv
  BY InitMatch
<1>2. /\ \A r \in Request : ~Listed(r) /\ req[r] = NotCreated /\ starts[r] = 0
      /\ \A q, r \in Request : ~Older(q, r)
  BY DEF Init, Listed, Older
<1>3. OrderInv
  BY <1>1, <1>2 DEF OrderInv, StartedOK, NumbersOK
<1>4. Queue = [f \in Folder |-> {}] /\ States = [r \in Request |-> "new"]
  BY <1>2 DEF Queue, States, State
<1> QED
  BY <1>3, <1>4 DEF Init, Promise!Init

(* DoNextCopy, NotifyCompletion and ClearRequest do what CopyPromise says:
   a folder's requests are dealt with one at a time and in order, none is
   skipped, begun before its turn or told of its end twice, however the
   calls nest and whether the folders succeed, fail, refuse or say nothing. *)
THEOREM KeepsPromiseAlways ==
  ASSUME Ordinary
  PROVE  Spec => KeepsPromise
<1>1. OrderInv /\ [Next]_vars => OrderInv' /\ [Promise!Next]_(Promise!vars)
  BY NextOrder DEF PromiseStep
<1> QED
  BY <1>1, InitOrder, PTL DEF Spec, KeepsPromise, Promise!Spec
=============================================================================
