------------------------- MODULE LocalProcessProofs -------------------------
(***************************************************************************)
(* Proofs about LocalProcess for any number of streams and descriptors.    *)
(***************************************************************************)
EXTENDS NamedPipes, FiniteSetTheorems, TLAPS

(* The spin lock is held where the code is between its lock and unlock.    *)
LockIsHeld ==
  \A s \in Streams :
    pc[s] \in {"pipes", "fork", "detach", "close", "join", "outputs"} =>
      oPipeSafe_ = s

(* There is a child once fork has returned (a stream that is no command is *)
(* past all this) ...                                                      *)
ForkedOrNot ==
  \A s \in Streams :
    pc[s] # "closed" =>
      (pc[s] \in {"open", "pipes", "fork", "failed"} <=> child[s] = "none")

(* ... and before that, or for the child's own side of the pipes before    *)
(* detach, ends are open only while the lock is held.                      *)
OpenInTheRegion ==
  \A n \in Fds, s \in Streams :
    fds[n] # Free /\ fds[n][1] = s =>
      /\ child[s] = "none" => pc[s] = "fork"
      /\ fds[n] \in ChildSide(s) => pc[s] \in {"fork", "detach"}

(* What a child has inherited belongs to streams whose child was forked.   *)
InheritedIsForked ==
  \A d \in Streams : \A e \in held[d] :
    /\ child[e[1]] # "none"
    /\ e \in ChildSide(e[1]) => e[1] = d

PipesInv ==
  /\ TypeOK
  /\ LockIsHeld
  /\ ForkedOrNot
  /\ OpenInTheRegion
  /\ InheritedIsForked
  /\ NoCircularWait

(* The ends the three calls of pipe() make are the stream's own.           *)
LEMMA PipeEnds ==
  ASSUME NEW s \in Streams, NEW k \in 1..6
  PROVE  PipeEnd(s, k) \in Ends /\ PipeEnd(s, k)[1] = s
BY DEF PipeEnd, Ends

(* What pipe() gives: an end of the stream where no descriptor was.        *)
LEMMA PipesAdd ==
  ASSUME NEW s \in Streams, Pipes(s), NEW n \in Fds
  PROVE  \/ fds'[n] = fds[n]
         \/ (fds'[n] \in Ends /\ fds'[n][1] = s)
<1> DEFINE k == Cardinality(FreeUpTo(n))
<1>1. fds'[n] = IF fds[n] = Free /\ k \in 1..6 THEN PipeEnd(s, k) ELSE fds[n]
  BY DEF Pipes
<1> HIDE DEF k
<1>2. CASE fds[n] = Free /\ k \in 1..6
  <2>1. fds'[n] = PipeEnd(s, k)
    BY <1>1, <1>2
  <2>2. QED
    BY <1>2, <2>1, PipeEnds
<1>3. CASE ~(fds[n] = Free /\ k \in 1..6)
  BY <1>1, <1>3
<1>4. QED
  BY <1>2, <1>3

LEMMA SidesAreEnds ==
  ASSUME NEW s \in Streams
  PROVE  ChildSide(s) \subseteq Ends /\ Input(s) \in Ends
BY DEF ChildSide, Input, Ends

LEMMA FreeIsNoEnd == Free \notin Ends
BY LocalProcessAssumption DEF Free, Ends, Streams, None

-----------------------------------------------------------------------------
(* No action leaves the types.                                             *)
LEMMA ConstructorTypes ==
  ASSUME TypeOK, NEW s \in Streams, Constructor(s)
  PROVE  TypeOK'
<1> USE DEF TypeOK, Goto, Acquire, Release, Close, readers, children, Stages
<1>1. CASE Lock(s)
  BY <1>1 DEF Lock
<1>2. CASE Pipes(s)
  <2>1. fds' \in [Fds -> Ends \union {Free}]
    <3>1. \A n \in Fds : fds[n] \in Ends \union {Free}
      OBVIOUS
    <3>2. \A n \in Fds : fds'[n] \in Ends \union {Free}
      BY <1>2, <3>1, PipesAdd
    <3>3. DOMAIN fds' = Fds /\ fds' = [n \in DOMAIN fds' |-> fds'[n]]
      BY <1>2 DEF Pipes
    <3>4. QED
      BY <3>2, <3>3
  <2>2. QED
    BY <1>2, <2>1 DEF Pipes
<1>3. CASE OpenRaises(s)
  BY <1>3 DEF OpenRaises
<1>4. CASE Fork(s)
  <2>1. Open \subseteq Ends
    BY DEF Open
  <2>2. held' \in [Streams -> SUBSET Ends]
    BY <1>4, <2>1, SidesAreEnds DEF Fork
  <2>3. QED
    BY <1>4, <2>2 DEF Fork
<1>5. CASE Detach(s)
  BY <1>5 DEF Detach
<1>6. ASSUME NEW p \in Outputs, StartReader(s, p) PROVE TypeOK'
  <2>1. pc' \in [Streams -> Stages]
    <3>1. \/ pc' = [pc EXCEPT ![s] = "post_out"]
          \/ pc' = [pc EXCEPT ![s] = "post_err"]
      BY <1>6, Zenon DEF StartReader
    <3>2. pc \in [Streams -> Stages]
      BY Zenon
    <3>3. QED
      BY <3>1, <3>2
  <2>2. oSrc_' \in [Streams -> SUBSET Fds]
    BY <1>6 DEF StartReader
  <2>3. reader' \in [Streams ->
          [Outputs -> {"none", "started", "reading", "done", "gone"}]]
    BY <1>6 DEF StartReader
  <2>4. QED
    BY <1>6, <2>1, <2>2, <2>3 DEF StartReader
<1>7. ASSUME NEW p \in Outputs, PostReader(s, p) PROVE TypeOK'
  BY <1>7, SMTT(20) DEF PostReader
<1>8. ASSUME NEW p \in Outputs, StartRaises(s, p) PROVE TypeOK'
  <2>1. pc' = [pc EXCEPT ![s] = "abandon"]
    BY <1>8, Zenon DEF StartRaises
  <2>2. oSrc_' \in [Streams -> SUBSET Fds]
    BY <1>8 DEF StartRaises
  <2>3. fds' \in [Fds -> Ends \union {Free}]
    BY <1>8 DEF StartRaises
  <2>4. QED
    BY <1>8, <2>1, <2>2, <2>3 DEF StartRaises
<1>9. CASE Abandon(s)
  BY <1>9 DEF Abandon
<1>10. QED
  BY <1>1, <1>2, <1>3, <1>4, <1>5, <1>6, <1>7, <1>8, <1>9 DEF Constructor

LEMMA DestructorTypes ==
  ASSUME TypeOK, NEW s \in Streams, Destructor(s)
  PROVE  TypeOK'
<1> USE DEF TypeOK, Goto, Acquire, Release, Close, readers, children, Stages
<1>1. CASE LockAgain(s)
  BY <1>1 DEF LockAgain
<1>2. CASE CloseInput(s)
  BY <1>2 DEF CloseInput
<1>3. CASE Reap(s)
  BY <1>3 DEF Reap
<1>4. CASE Relock(s)
  BY <1>4 DEF Relock
<1>5. CASE Join(s)
  BY <1>5 DEF Join
<1>6. CASE CloseOutputs(s)
  BY <1>6 DEF CloseOutputs
<1>7. CASE DestroyMembers(s)
  BY <1>7 DEF DestroyMembers
<1>8. QED
  BY <1>1, <1>2, <1>3, <1>4, <1>5, <1>6, <1>7 DEF Destructor

LEMMA OthersTypes ==
  ASSUME TypeOK, NEW s \in Streams, Redirector(s) \/ ChildEnds(s)
  PROVE  TypeOK'
<1> USE DEF TypeOK, readers, children
<1>1. ASSUME NEW p \in Outputs, Run(s, p) PROVE TypeOK'
  BY <1>1 DEF Run
<1>2. ASSUME NEW p \in Outputs, EndOfOutput(s, p) PROVE TypeOK'
  BY <1>2 DEF EndOfOutput
<1>3. CASE ChildEnds(s)
  BY <1>3 DEF ChildEnds
<1>4. QED
  BY <1>1, <1>2, <1>3 DEF Redirector

-----------------------------------------------------------------------------
(* When nobody inherits anything and no child starts, nobody waits anew.   *)
LEMMA NoNewWait ==
  ASSUME NoCircularWait, held' = held, Running' \subseteq Running
  PROVE  NoCircularWait'
BY DEF NoCircularWait

LEMMA InitHolds ==
  ASSUME Init
  PROVE  PipesInv
<1>1. TypeOK
  BY DEF Init, TypeOK, Stages
<1>2. LockIsHeld /\ ForkedOrNot /\ OpenInTheRegion /\ InheritedIsForked
  BY DEF Init, LockIsHeld, ForkedOrNot, OpenInTheRegion, InheritedIsForked
<1>3. NoCircularWait
  BY DEF Init, NoCircularWait, Running
<1>4. QED
  BY <1>1, <1>2, <1>3 DEF PipesInv

(* The constructor up to the end of its lock region.                       *)
LEMMA ConstructorKeeps ==
  ASSUME PipesInv, TypeOK', NEW s \in Streams, Constructor(s)
  PROVE  PipesInv'
<1>0. /\ TypeOK /\ LockIsHeld /\ ForkedOrNot /\ OpenInTheRegion
      /\ InheritedIsForked /\ NoCircularWait
  BY DEF PipesInv
<1> USE <1>0 DEF TypeOK, Goto, Acquire, Release, Close, readers, children
<1>1. CASE Lock(s)
  <2>1. LockIsHeld' /\ ForkedOrNot'
    <3>1. \A t \in Streams : t # s => pc'[t] = pc[t]
      BY <1>1 DEF Lock
    <3>2. \A t \in Streams : pc[t] \notin {"pipes", "fork", "detach", "close",
                                        "join", "outputs"}
      BY <1>1 DEF Lock, LockIsHeld, None, Streams
    <3>3. LockIsHeld'
      BY <1>1, <3>1, <3>2 DEF Lock, LockIsHeld
    <3>4. ForkedOrNot'
      BY <1>1 DEF Lock, ForkedOrNot
    <3>5. QED
      BY <3>3, <3>4
  <2>2. OpenInTheRegion'
    BY <1>1, FreeIsNoEnd DEF Lock, OpenInTheRegion, LockIsHeld, ForkedOrNot
  <2>3. InheritedIsForked'
    BY <1>1 DEF Lock, InheritedIsForked
  <2>4. NoCircularWait'
    BY <1>1, NoNewWait DEF Lock, Running
  <2>5. QED
    BY <2>1, <2>2, <2>3, <2>4 DEF PipesInv
<1>2. CASE Pipes(s)
  <2>1. LockIsHeld' /\ ForkedOrNot'
    BY <1>2 DEF Pipes, LockIsHeld, ForkedOrNot
  <2>2. OpenInTheRegion'
    <3>1. \A n \in Fds : \/ fds'[n] = fds[n]
                        \/ (fds'[n] \in Ends /\ fds'[n][1] = s)
      BY <1>2, PipesAdd
    <3>2. pc'[s] = "fork" /\ \A t \in Streams : t # s => pc'[t] = pc[t]
      BY <1>2 DEF Pipes
    <3>3. child' = child
      BY <1>2 DEF Pipes
    <3>4. QED
      BY <3>1, <3>2, <3>3 DEF OpenInTheRegion
  <2>3. InheritedIsForked'
    BY <1>2 DEF Pipes, InheritedIsForked
  <2>4. NoCircularWait'
    BY <1>2, NoNewWait DEF Pipes, Running
  <2>5. QED
    BY <2>1, <2>2, <2>3, <2>4 DEF PipesInv
<1>3. CASE OpenRaises(s)
  <2>1. LockIsHeld' /\ ForkedOrNot'
    BY <1>3 DEF OpenRaises, LockIsHeld, ForkedOrNot
  <2>2. OpenInTheRegion'
    <3>1. \A n \in Fds : fds'[n] # Free =>
                          fds'[n] = fds[n] /\ fds[n] \in Ends /\ fds[n][1] # s
      BY <1>3 DEF OpenRaises, Ends
    <3>2. child' = child /\ \A t \in Streams : t # s => pc'[t] = pc[t]
      BY <1>3 DEF OpenRaises
    <3>3. QED
      BY <3>1, <3>2 DEF OpenInTheRegion
  <2>3. InheritedIsForked'
    BY <1>3 DEF OpenRaises, InheritedIsForked
  <2>4. NoCircularWait'
    BY <1>3, NoNewWait DEF OpenRaises, Running
  <2>5. QED
    BY <2>1, <2>2, <2>3, <2>4 DEF PipesInv
<1>4. CASE Fork(s)
  <2>1. LockIsHeld' /\ ForkedOrNot'
    BY <1>4 DEF Fork, LockIsHeld, ForkedOrNot
  <2>2. OpenInTheRegion'
    BY <1>4, SMTT(20) DEF Fork, OpenInTheRegion
  <2>3. \A e \in Open : e[1] # s => child[e[1]] # "none"
                                   /\ e \notin ChildSide(e[1])
    <3>1. SUFFICES ASSUME NEW n \in Fds, fds[n] # Free, fds[n][1] # s
                   PROVE  child[fds[n][1]] # "none"
                          /\ fds[n] \notin ChildSide(fds[n][1])
      BY DEF Open
    <3>2. fds[n][1] \in Streams
      BY <3>1 DEF Ends
    <3>3. oPipeSafe_ = s
      BY <1>4 DEF Fork, LockIsHeld
    <3>4. pc[fds[n][1]] \notin {"fork", "detach"}
      BY <3>1, <3>2, <3>3 DEF LockIsHeld
    <3>5. QED
      BY <3>1, <3>2, <3>4 DEF OpenInTheRegion
  <2>4. \A e \in held'[s] : e[1] = s \/ (e \in Open /\ e[1] # s)
    <3>1. held'[s] = {e \in Open : e[1] # s} \union ChildSide(s)
      BY <1>4 DEF Fork
    <3>2. \A e \in ChildSide(s) : e[1] = s
      BY DEF ChildSide
    <3>3. QED
      BY <3>1, <3>2
  <2>5. child'[s] = "running" /\ \A t \in Streams : t # s => child'[t] = child[t]
    BY <1>4 DEF Fork
  <2>6. \A d \in Streams : d # s => held'[d] = held[d]
    BY <1>4 DEF Fork
  <2>7. InheritedIsForked'
    <3>1. ASSUME NEW d \in Streams, NEW e \in held'[d]
          PROVE  child'[e[1]] # "none" /\ (e \in ChildSide(e[1]) => e[1] = d)
      <4>1. e[1] \in Streams
        BY <3>1 DEF Ends
      <4>2. CASE d = s
        BY <2>3, <2>4, <2>5, <3>1, <4>1, <4>2
      <4>3. CASE d # s
        BY <2>5, <2>6, <3>1, <4>1, <4>3 DEF InheritedIsForked
      <4>4. QED
        BY <4>2, <4>3
    <3>2. QED
      BY <3>1 DEF InheritedIsForked
  <2>8. NoCircularWait'
    <3>1. SUFFICES ASSUME NEW S \in SUBSET Running', S # {}
                   PROVE  \E c \in S : \A d \in S : Input(c) \notin held'[d]
      BY DEF NoCircularWait
    <3>2. S \subseteq Streams
      BY <3>1 DEF Running
    <3>3. CASE s \in S
      <4>1. Input(s) \notin held'[s]
        BY <1>4 DEF Fork, Input, ChildSide
      <4>2. child[s] = "none"
        BY <1>4 DEF Fork, ForkedOrNot
      <4>3. \A d \in S : d # s => Input(s) \notin held[d]
        BY <3>2, <4>2 DEF InheritedIsForked, Input
      <4>4. QED
        BY <2>6, <3>2, <3>3, <4>1, <4>3
    <3>4. CASE s \notin S
      <4>1. S \in SUBSET Running
        BY <2>5, <3>1, <3>2, <3>4 DEF Running
      <4>2. PICK c \in S : \A d \in S : Input(c) \notin held[d]
        BY <3>1, <4>1 DEF NoCircularWait
      <4>3. QED
        BY <2>6, <3>2, <3>4, <4>2
    <3>5. QED
      BY <3>3, <3>4
  <2>9. QED
    BY <2>1, <2>2, <2>7, <2>8 DEF PipesInv
<1>5. CASE Detach(s)
  <2>1. LockIsHeld' /\ ForkedOrNot'
    BY <1>5 DEF Detach, LockIsHeld, ForkedOrNot
  <2>2. OpenInTheRegion'
    BY <1>5, FreeIsNoEnd DEF Detach, OpenInTheRegion, LockIsHeld, ForkedOrNot
  <2>3. InheritedIsForked'
    BY <1>5 DEF Detach, InheritedIsForked
  <2>4. NoCircularWait'
    BY <1>5, NoNewWait DEF Detach, Running
  <2>5. QED
    BY <2>1, <2>2, <2>3, <2>4 DEF PipesInv
<1>6. ASSUME NEW p \in Outputs, StartReader(s, p) PROVE PipesInv'
  <2>1. LockIsHeld' /\ ForkedOrNot'
    <3>1. \A t \in Streams :
            IF t = s THEN /\ pc[s] \in {"start_out", "start_err"}
                          /\ pc'[s] \in {"post_out", "post_err"}
            ELSE pc'[t] = pc[t]
      BY <1>6 DEF StartReader
    <3>2. UNCHANGED <<oPipeSafe_, child>>
      BY <1>6 DEF StartReader
    <3>3. QED
      BY <3>1, <3>2 DEF LockIsHeld, ForkedOrNot
  <2>2. OpenInTheRegion'
    BY <1>6 DEF StartReader, OpenInTheRegion, ForkedOrNot
  <2>3. InheritedIsForked'
    BY <1>6 DEF StartReader, InheritedIsForked
  <2>4. NoCircularWait'
    BY <1>6, NoNewWait DEF StartReader, Running
  <2>5. QED
    BY <2>1, <2>2, <2>3, <2>4 DEF PipesInv
<1>7. ASSUME NEW p \in Outputs, PostReader(s, p) PROVE PipesInv'
  <2>1. LockIsHeld' /\ ForkedOrNot'
    <3>1. \A t \in Streams :
            IF t = s THEN /\ pc[s] \in {"post_out", "post_err"}
                          /\ pc'[s] \in {"start_err", "write"}
            ELSE pc'[t] = pc[t]
      BY <1>7 DEF PostReader
    <3>2. UNCHANGED <<oPipeSafe_, child>>
      BY <1>7 DEF PostReader
    <3>3. QED
      BY <3>1, <3>2 DEF LockIsHeld, ForkedOrNot
  <2>2. OpenInTheRegion'
    BY <1>7 DEF PostReader, OpenInTheRegion, ForkedOrNot
  <2>3. InheritedIsForked'
    BY <1>7 DEF PostReader, InheritedIsForked
  <2>4. NoCircularWait'
    BY <1>7, NoNewWait DEF PostReader, Running
  <2>5. QED
    BY <2>1, <2>2, <2>3, <2>4 DEF PipesInv
<1>8. ASSUME NEW p \in Outputs, StartRaises(s, p) PROVE PipesInv'
  <2>1. LockIsHeld' /\ ForkedOrNot'
    <3>1. \A t \in Streams :
            IF t = s THEN pc[s] \in {"start_out", "start_err"} /\ pc'[s] = "abandon"
            ELSE pc'[t] = pc[t]
      BY <1>8 DEF StartRaises
    <3>2. UNCHANGED <<oPipeSafe_, child>>
      BY <1>8 DEF StartRaises
    <3>3. QED
      BY <3>1, <3>2 DEF LockIsHeld, ForkedOrNot
  <2>2. OpenInTheRegion'
    <3>1. \A n \in Fds : fds'[n] = Free \/ fds'[n] = fds[n]
      BY <1>8 DEF StartRaises
    <3>2. \A t \in Streams : pc'[t] # pc[t] => t = s /\ child[s] # "none"
                                              /\ pc[s] \notin {"fork", "detach"}
      BY <1>8 DEF StartRaises, ForkedOrNot
    <3>3. child' = child
      BY <1>8 DEF StartRaises
    <3>4. QED
      BY <3>1, <3>2, <3>3 DEF OpenInTheRegion
  <2>3. InheritedIsForked'
    BY <1>8 DEF StartRaises, InheritedIsForked
  <2>4. NoCircularWait'
    BY <1>8, NoNewWait DEF StartRaises, Running
  <2>5. QED
    BY <2>1, <2>2, <2>3, <2>4 DEF PipesInv
<1>9. CASE Abandon(s)
  <2>1. LockIsHeld' /\ ForkedOrNot'
    BY <1>9 DEF Abandon, LockIsHeld, ForkedOrNot
  <2>2. OpenInTheRegion'
    <3>1. \A n \in Fds : fds'[n] = Free \/ fds'[n] = fds[n]
      BY <1>9 DEF Abandon
    <3>2. \A t \in Streams : pc'[t] # pc[t] => t = s /\ child[s] # "none"
                                              /\ pc[s] \notin {"fork", "detach"}
      BY <1>9 DEF Abandon, ForkedOrNot
    <3>3. child' = child
      BY <1>9 DEF Abandon
    <3>4. QED
      BY <3>1, <3>2, <3>3 DEF OpenInTheRegion
  <2>3. InheritedIsForked'
    BY <1>9 DEF Abandon, InheritedIsForked
  <2>4. NoCircularWait'
    BY <1>9, NoNewWait DEF Abandon, Running
  <2>5. QED
    BY <2>1, <2>2, <2>3, <2>4 DEF PipesInv
<1>10. QED
  BY <1>1, <1>2, <1>3, <1>4, <1>5, <1>6, <1>7, <1>8, <1>9 DEF Constructor

(* The destructor closes ends and waits; nobody inherits anything.         *)
LEMMA DestructorKeeps ==
  ASSUME PipesInv, TypeOK', NEW s \in Streams, Destructor(s)
  PROVE  PipesInv'
<1>0. /\ TypeOK /\ LockIsHeld /\ ForkedOrNot /\ OpenInTheRegion
      /\ InheritedIsForked /\ NoCircularWait
  BY DEF PipesInv
<1> USE <1>0 DEF TypeOK, Goto, Acquire, Release, Close, readers, children
<1>1. CASE LockAgain(s)
  <2>1. LockIsHeld' /\ ForkedOrNot'
    <3>1. \A t \in Streams : t # s => pc'[t] = pc[t]
      BY <1>1 DEF LockAgain
    <3>2. \A t \in Streams : pc[t] \notin {"pipes", "fork", "detach", "close",
                                        "join", "outputs"}
      BY <1>1 DEF LockAgain, LockIsHeld, None, Streams
    <3>3. LockIsHeld'
      BY <1>1, <3>1, <3>2 DEF LockAgain, LockIsHeld
    <3>4. ForkedOrNot'
      BY <1>1 DEF LockAgain, ForkedOrNot
    <3>5. QED
      BY <3>3, <3>4
  <2>2. OpenInTheRegion'
    BY <1>1, FreeIsNoEnd DEF LockAgain, OpenInTheRegion, LockIsHeld, ForkedOrNot
  <2>3. InheritedIsForked'
    BY <1>1 DEF LockAgain, InheritedIsForked
  <2>4. NoCircularWait'
    BY <1>1, NoNewWait DEF LockAgain, Running
  <2>5. QED
    BY <2>1, <2>2, <2>3, <2>4 DEF PipesInv
<1>2. CASE CloseInput(s)
  <2>1. LockIsHeld' /\ ForkedOrNot'
    BY <1>2 DEF CloseInput, LockIsHeld, ForkedOrNot
  <2>2. OpenInTheRegion'
    BY <1>2, FreeIsNoEnd DEF CloseInput, OpenInTheRegion, LockIsHeld, ForkedOrNot
  <2>3. InheritedIsForked'
    BY <1>2 DEF CloseInput, InheritedIsForked
  <2>4. NoCircularWait'
    BY <1>2, NoNewWait DEF CloseInput, Running
  <2>5. QED
    BY <2>1, <2>2, <2>3, <2>4 DEF PipesInv
<1>3. CASE Reap(s)
  <2>1. LockIsHeld' /\ ForkedOrNot'
    BY <1>3 DEF Reap, LockIsHeld, ForkedOrNot
  <2>2. OpenInTheRegion'
    BY <1>3, FreeIsNoEnd DEF Reap, OpenInTheRegion, LockIsHeld, ForkedOrNot
  <2>3. InheritedIsForked'
    BY <1>3 DEF Reap, InheritedIsForked
  <2>4. NoCircularWait'
    BY <1>3, NoNewWait DEF Reap, Running
  <2>5. QED
    BY <2>1, <2>2, <2>3, <2>4 DEF PipesInv
<1>4. CASE Relock(s)
  <2>1. LockIsHeld' /\ ForkedOrNot'
    <3>1. \A t \in Streams : t # s => pc'[t] = pc[t]
      BY <1>4 DEF Relock
    <3>2. \A t \in Streams : pc[t] \notin {"pipes", "fork", "detach", "close",
                                        "join", "outputs"}
      BY <1>4 DEF Relock, LockIsHeld, None, Streams
    <3>3. LockIsHeld'
      BY <1>4, <3>1, <3>2 DEF Relock, LockIsHeld
    <3>4. ForkedOrNot'
      BY <1>4 DEF Relock, ForkedOrNot
    <3>5. QED
      BY <3>3, <3>4
  <2>2. OpenInTheRegion'
    BY <1>4, FreeIsNoEnd DEF Relock, OpenInTheRegion, LockIsHeld, ForkedOrNot
  <2>3. InheritedIsForked'
    BY <1>4 DEF Relock, InheritedIsForked
  <2>4. NoCircularWait'
    BY <1>4, NoNewWait DEF Relock, Running
  <2>5. QED
    BY <2>1, <2>2, <2>3, <2>4 DEF PipesInv
<1>5. CASE Join(s)
  <2>1. LockIsHeld' /\ ForkedOrNot'
    BY <1>5 DEF Join, LockIsHeld, ForkedOrNot
  <2>2. OpenInTheRegion'
    BY <1>5, FreeIsNoEnd DEF Join, OpenInTheRegion, LockIsHeld, ForkedOrNot
  <2>3. InheritedIsForked'
    BY <1>5 DEF Join, InheritedIsForked
  <2>4. NoCircularWait'
    BY <1>5, NoNewWait DEF Join, Running
  <2>5. QED
    BY <2>1, <2>2, <2>3, <2>4 DEF PipesInv
<1>6. CASE CloseOutputs(s)
  <2>1. LockIsHeld' /\ ForkedOrNot'
    BY <1>6 DEF CloseOutputs, LockIsHeld, ForkedOrNot
  <2>2. OpenInTheRegion'
    BY <1>6, FreeIsNoEnd DEF CloseOutputs, OpenInTheRegion, LockIsHeld, ForkedOrNot
  <2>3. InheritedIsForked'
    BY <1>6 DEF CloseOutputs, InheritedIsForked
  <2>4. NoCircularWait'
    BY <1>6, NoNewWait DEF CloseOutputs, Running
  <2>5. QED
    BY <2>1, <2>2, <2>3, <2>4 DEF PipesInv
<1>7. CASE DestroyMembers(s)
  <2>1. LockIsHeld' /\ ForkedOrNot'
    BY <1>7 DEF DestroyMembers, LockIsHeld, ForkedOrNot
  <2>2. OpenInTheRegion'
    BY <1>7, FreeIsNoEnd DEF DestroyMembers, OpenInTheRegion, LockIsHeld, ForkedOrNot
  <2>3. InheritedIsForked'
    BY <1>7 DEF DestroyMembers, InheritedIsForked
  <2>4. NoCircularWait'
    BY <1>7, NoNewWait DEF DestroyMembers, Running
  <2>5. QED
    BY <2>1, <2>2, <2>3, <2>4 DEF PipesInv
<1>8. QED
  BY <1>1, <1>2, <1>3, <1>4, <1>5, <1>6, <1>7 DEF Destructor

LEMMA OthersKeep ==
  ASSUME PipesInv, TypeOK', NEW s \in Streams, Redirector(s) \/ ChildEnds(s)
  PROVE  PipesInv'
<1>0. /\ TypeOK /\ LockIsHeld /\ ForkedOrNot /\ OpenInTheRegion
      /\ InheritedIsForked /\ NoCircularWait
  BY DEF PipesInv
<1> USE <1>0 DEF TypeOK, Goto, Acquire, Release, Close, readers, children
<1>1. ASSUME NEW p \in Outputs, Run(s, p) PROVE PipesInv'
  <2>1. LockIsHeld' /\ ForkedOrNot'
    BY <1>1 DEF Run, LockIsHeld, ForkedOrNot
  <2>2. OpenInTheRegion'
    BY <1>1 DEF Run, OpenInTheRegion, ForkedOrNot
  <2>3. InheritedIsForked'
    BY <1>1 DEF Run, InheritedIsForked
  <2>4. NoCircularWait'
    BY <1>1, NoNewWait DEF Run, Running
  <2>5. QED
    BY <2>1, <2>2, <2>3, <2>4 DEF PipesInv
<1>2. ASSUME NEW p \in Outputs, EndOfOutput(s, p) PROVE PipesInv'
  <2>1. LockIsHeld' /\ ForkedOrNot'
    BY <1>2 DEF EndOfOutput, LockIsHeld, ForkedOrNot
  <2>2. OpenInTheRegion'
    BY <1>2 DEF EndOfOutput, OpenInTheRegion, ForkedOrNot
  <2>3. InheritedIsForked'
    BY <1>2 DEF EndOfOutput, InheritedIsForked
  <2>4. NoCircularWait'
    BY <1>2, NoNewWait DEF EndOfOutput, Running
  <2>5. QED
    BY <2>1, <2>2, <2>3, <2>4 DEF PipesInv
<1>3. CASE ChildEnds(s)
  <2>1. LockIsHeld' /\ ForkedOrNot'
    BY <1>3 DEF ChildEnds, LockIsHeld, ForkedOrNot
  <2>2. OpenInTheRegion'
    BY <1>3, FreeIsNoEnd DEF ChildEnds, OpenInTheRegion, LockIsHeld, ForkedOrNot
  <2>3. InheritedIsForked'
    BY <1>3 DEF ChildEnds, InheritedIsForked
  <2>4. NoCircularWait'
    BY <1>3, NoNewWait DEF ChildEnds, Running
  <2>5. QED
    BY <2>1, <2>2, <2>3, <2>4 DEF PipesInv
<1>4. QED
  BY <1>1, <1>2, <1>3 DEF Redirector

-----------------------------------------------------------------------------
LEMMA PipesStep == PipesInv /\ [Next]_vars => PipesInv'
<1> SUFFICES ASSUME PipesInv, [Next]_vars PROVE PipesInv'
  OBVIOUS
<1>1. CASE UNCHANGED vars
  BY <1>1 DEF vars, readers, children, PipesInv, TypeOK, LockIsHeld,
     ForkedOrNot, OpenInTheRegion, InheritedIsForked, NoCircularWait, Running
<1>2. ASSUME NEW s \in Streams, Constructor(s) PROVE PipesInv'
  BY <1>2, ConstructorTypes, ConstructorKeeps DEF PipesInv
<1>3. ASSUME NEW s \in Streams, Destructor(s) PROVE PipesInv'
  BY <1>3, DestructorTypes, DestructorKeeps DEF PipesInv
<1>4. ASSUME NEW s \in Streams, Redirector(s) \/ ChildEnds(s)
      PROVE  PipesInv'
  BY <1>4, OthersTypes, OthersKeep DEF PipesInv
<1>5. QED
  BY <1>1, <1>2, <1>3, <1>4 DEF Next

(* The invariant holds, for any streams in any order.                      *)
THEOREM InvariantHolds == Spec => []PipesInv
  BY InitHolds, PipesStep, PTL DEF Spec

(* The state of the streams stays well typed.                              *)
THEOREM TypeCorrect == Spec => []TypeOK
<1>1. PipesInv => TypeOK
  BY DEF PipesInv
<1>2. QED
  BY <1>1, InvariantHolds, PTL

(* Children never wait for each other in a circle.                         *)
THEOREM NeverCircular == Spec => []NoCircularWait
<1>1. PipesInv => NoCircularWait
  BY DEF PipesInv
<1>2. QED
  BY <1>1, InvariantHolds, PTL

(* A child's outputs are inherited by no other child.                      *)
THEOREM OutputsAreOwn == Spec => []OutputIsItsOwn
<1>1. PipesInv => OutputIsItsOwn
  BY DEF PipesInv, InheritedIsForked, OutputIsItsOwn, ChildSide, Outputs
<1>2. QED
  BY <1>1, InvariantHolds, PTL

-----------------------------------------------------------------------------
(* Commands and named pipes: the streams of a run.                         *)

LEMMA NoCommandsHold == NoCommands => PipesInv
<1> SUFFICES ASSUME NoCommands PROVE PipesInv
  OBVIOUS
<1>1. TypeOK
  BY DEF NoCommands, TypeOK, Stages
<1>2. LockIsHeld /\ ForkedOrNot /\ OpenInTheRegion /\ InheritedIsForked
  BY DEF NoCommands, LockIsHeld, ForkedOrNot, OpenInTheRegion,
     InheritedIsForked
<1>3. NoCircularWait
  BY DEF NoCommands, NoCircularWait, Running
<1>4. QED
  BY <1>1, <1>2, <1>3 DEF PipesInv

(* What holds of streams to commands holds of the streams of every run.    *)
LEMMA StreamsKeepPipes == StreamsSpec => []PipesInv
<1>1. StreamsInit => PipesInv
  BY InitHolds, NoCommandsHold DEF StreamsInit
<1>2. [StreamsNext]_allVars => [Next]_vars
  BY DEF StreamsNext, allVars
<1>3. QED
  BY <1>1, <1>2, PipesStep, PTL DEF StreamsSpec

(* The children of a run's streams never wait for each other in a circle.  *)
THEOREM StreamsNeverCircular == StreamsSpec => []NoCircularWait
<1>1. PipesInv => NoCircularWait
  BY DEF PipesInv
<1>2. QED
  BY <1>1, StreamsKeepPipes, PTL

(* No child of a run's streams keeps the output of another open.           *)
THEOREM StreamsOutputsAreOwn == StreamsSpec => []OutputIsItsOwn
<1>1. PipesInv => OutputIsItsOwn
  BY DEF PipesInv, InheritedIsForked, OutputIsItsOwn, ChildSide, Outputs
<1>2. QED
  BY <1>1, StreamsKeepPipes, PTL

-----------------------------------------------------------------------------
(* Named pipes: one count per name.                                        *)

LEMMA UsersAreFinite ==
  ASSUME NEW n
  PROVE  /\ IsFiniteSet(Users(n)) /\ Cardinality(Users(n)) \in Nat
         /\ Cardinality(Users(n)) = 0 <=> Users(n) = {}
<1>1. IsFiniteSet(PipeStreams)
  BY NamedPipesAssumption, FS_Interval DEF PipeStreams
<1>2. Users(n) \subseteq PipeStreams
  BY DEF Users
<1>3. QED
  BY <1>1, <1>2, FS_Subset, FS_CardinalityType, FS_EmptySet

LEMMA StartNames == StreamsInit => NamesInv
<1> SUFFICES ASSUME StreamsInit PROVE NamesInv
  OBVIOUS
<1>1. \A n : Users(n) = {}
  BY DEF StreamsInit, NoPipes, PipesInit, Users
<1>2. \A n : Cardinality(Users(n)) = 0
  BY <1>1, UsersAreFinite
<1>3. /\ name_ \in [PipeStreams -> Names]
      /\ at \in [PipeStreams -> {"open", "opening", "write", "closed", "failed"}]
      /\ found \in [Names -> {"none", "fifo", "file"}]
  BY NamedPipesAssumption DEF StreamsInit, NoPipes, PipesInit, Names
<1>4. QED
  BY <1>1, <1>2, <1>3 DEF StreamsInit, NamesInv

(* A step of a stream that is past mkfifo neither before nor after it, or  *)
(* both before and after it, changes no count.                             *)
LEMMA SameUsers ==
  ASSUME NamesInv, NEW s \in PipeStreams, NEW from, NEW to, Move(s, from, to),
         UNCHANGED <<name_, oNamedPipes, node, found>>,
         to \in {"write", "failed"},
         from \in {"opening", "write"} <=> to \in {"opening", "write"},
         \A t \in isOpen' : t \in isOpen \/ (t = s /\ to = "write"),
         s \in isOpen => to = "write"
  PROVE  NamesInv'
<1>1. at' \in [PipeStreams -> {"open", "opening", "write", "closed", "failed"}]
  BY DEF NamesInv, Move
<1>2. \A n : Users(n)' = Users(n)
  BY DEF NamesInv, Move, Users
<1>3. \A t \in isOpen' : t \in PipeStreams /\ at'[t] = "write"
  BY DEF NamesInv, Move
<1>4. QED
  BY <1>1, <1>2, <1>3 DEF NamesInv

LEMMA RegisterKeeps ==
  ASSUME NamesInv, NEW s \in PipeStreams, Register(s) PROVE NamesInv'
<1>0. PICK n \in Names : name_[s] = n
  BY DEF NamesInv
<1> DEFINE oItem == oNamedPipes[n]
<1>1. /\ n \in Names /\ UNCHANGED <<name_, found, isOpen>>
      /\ at' = [at EXCEPT ![s] = "opening"] /\ at[s] = "open"
      /\ node[n] # "file" /\ node' = [node EXCEPT ![n] = "fifo"]
  BY <1>0 DEF NamesInv, Register, Move, setting
<1>2. /\ s \notin Users(n) /\ Users(n)' = Users(n) \cup {s}
      /\ \A m : m # n => Users(m)' = Users(m)
  BY <1>0, <1>1 DEF Users, NamesInv
<1>3. /\ Cardinality(Users(n)') = Cardinality(Users(n)) + 1
      /\ Cardinality(Users(n)) \in Nat
      /\ Cardinality(Users(n)) = 0 <=> Users(n) = {}
  BY <1>2, UsersAreFinite, FS_AddElement
<1>4. /\ oItem.refs = Cardinality(Users(n))
      /\ oItem.made <=> Users(n) # {} /\ found[n] = "none"
      /\ node[n] = IF Users(n) = {} THEN found[n] ELSE "fifo"
      /\ oItem.made \in BOOLEAN /\ (found[n] = "file" => Users(n) = {})
  BY <1>1 DEF NamesInv
<1>5. PICK made \in BOOLEAN :
        /\ made <=> found[n] = "none"
        /\ oNamedPipes' = [oNamedPipes EXCEPT ![n] =
             [refs |-> oItem.refs + 1, made |-> made]]
  <2> DEFINE made == IF oItem.refs = 0 THEN Made(n) ELSE oItem.made
  <2>1. made \in BOOLEAN
    BY <1>4 DEF Made
  <2>2. made <=> found[n] = "none"
    BY <1>3, <1>4 DEF Made
  <2>3. oNamedPipes' = [oNamedPipes EXCEPT ![n] =
          [refs |-> oItem.refs + 1, made |-> made]]
    BY <1>0 DEF Register
  <2>4. QED
    BY <2>1, <2>2, <2>3
<1>6. /\ node' \in [Names -> {"none", "fifo", "file"}]
      /\ node'[n] = "fifo" /\ \A m \in Names \ {n} : node'[m] = node[m]
  BY <1>1 DEF NamesInv
<1>7. /\ oNamedPipes' \in [Names -> [refs : Nat, made : BOOLEAN]]
      /\ oNamedPipes'[n].refs = Cardinality(Users(n)) + 1
      /\ oNamedPipes'[n].made <=> found[n] = "none"
      /\ \A m \in Names \ {n} : oNamedPipes'[m] = oNamedPipes[m]
  BY <1>1, <1>3, <1>4, <1>5 DEF NamesInv
<1>8. ASSUME NEW m \in Names
      PROVE  /\ oNamedPipes'[m].refs = Cardinality(Users(m)')
             /\ oNamedPipes'[m].made <=> Users(m)' # {} /\ found'[m] = "none"
             /\ node'[m] = IF Users(m)' = {} THEN found'[m] ELSE "fifo"
             /\ found'[m] = "file" => Users(m)' = {}
  <2>1. CASE m = n
    <3>1. found[n] # "file" /\ found' = found /\ Users(n)' # {}
      BY <1>1, <1>2, <1>4
    <3>2. found'[n] = "file" => Users(n)' = {}
      BY <3>1
    <3>3. node'[n] = IF Users(n)' = {} THEN found'[n] ELSE "fifo"
      BY <3>1, <1>6
    <3>4. oNamedPipes'[n].made <=> Users(n)' # {} /\ found'[n] = "none"
      BY <3>1, <1>7
    <3>5. oNamedPipes'[n].refs = Cardinality(Users(n)')
      BY <1>3, <1>7
    <3>6. QED
      BY <2>1, <3>2, <3>3, <3>4, <3>5
  <2>2. CASE m # n
    BY <2>2, <1>1, <1>2, <1>6, <1>7 DEF NamesInv
  <2>3. QED
    BY <2>1, <2>2
<1>9. /\ name_' \in [PipeStreams -> Names]
      /\ at' \in [PipeStreams -> {"open", "opening", "write", "closed", "failed"}]
      /\ \A t \in isOpen' : t \in PipeStreams /\ at'[t] = "write"
      /\ found' \in [Names -> {"none", "fifo", "file"}]
  BY <1>1 DEF NamesInv
<1>10. QED
  BY <1>6, <1>7, <1>8, <1>9 DEF NamesInv

LEMMA CloseKeeps ==
  ASSUME NamesInv, NEW s \in PipeStreams, ClosePipe(s) PROVE NamesInv'
<1>0. PICK n \in Names : name_[s] = n
  BY DEF NamesInv
<1> DEFINE oItem == oNamedPipes[n]
<1>1. /\ n \in Names /\ UNCHANGED <<name_, found>> /\ isOpen' = isOpen \ {s}
      /\ at' = [at EXCEPT ![s] = "closed"] /\ at[s] = "write"
  BY <1>0 DEF NamesInv, ClosePipe, Move, setting
<1>2. /\ s \in Users(n) /\ Users(n)' = Users(n) \ {s}
      /\ \A m : m # n => Users(m)' = Users(m)
  BY <1>0, <1>1 DEF Users, NamesInv
<1>3. /\ Cardinality(Users(n)') = Cardinality(Users(n)) - 1
      /\ Cardinality(Users(n)) \in Nat \ {0}
      /\ Users(n)' = {} <=> Cardinality(Users(n)) = 1
  <2>1. Cardinality(Users(n) \ {s}) = Cardinality(Users(n)) - 1
    BY <1>2, UsersAreFinite, FS_RemoveElement
  <2>2. IsFiniteSet(Users(n) \ {s})
    BY UsersAreFinite, FS_Subset
  <2>3. Cardinality(Users(n) \ {s}) = 0 <=> Users(n) \ {s} = {}
    BY <2>2, FS_EmptySet
  <2>4. Cardinality(Users(n)) \in Nat /\ Cardinality(Users(n)) # 0
    BY <1>2, UsersAreFinite
  <2>5. QED
    BY <1>2, <2>1, <2>3, <2>4
<1>4. /\ oItem.refs = Cardinality(Users(n)) /\ oItem.made \in BOOLEAN
      /\ oItem.made <=> found[n] = "none"
      /\ node[n] = "fifo" /\ found[n] \in {"none", "fifo"}
      /\ oItem = [refs |-> oItem.refs, made |-> oItem.made]
  BY <1>1, <1>2 DEF NamesInv
<1>5. /\ node' \in [Names -> {"none", "fifo", "file"}]
      /\ node'[n] = IF Users(n)' = {} THEN found[n] ELSE "fifo"
      /\ \A m \in Names \ {n} : node'[m] = node[m]
  <2>1. node' = IF oItem.refs = 1 /\ oItem.made
                THEN [node EXCEPT ![n] = "none"] ELSE node
    BY <1>0 DEF ClosePipe
  <2>2. CASE oItem.refs = 1 /\ oItem.made
    BY <2>1, <2>2, <1>1, <1>3, <1>4 DEF NamesInv
  <2>3. CASE ~(oItem.refs = 1 /\ oItem.made)
    BY <2>1, <2>3, <1>1, <1>3, <1>4 DEF NamesInv
  <2>4. QED
    BY <2>2, <2>3
<1>6. PICK oNew \in [refs : Nat, made : BOOLEAN] :
        /\ oNamedPipes' = [oNamedPipes EXCEPT ![n] = oNew]
        /\ oNew.refs = Cardinality(Users(n)')
        /\ oNew.made <=> Users(n)' # {} /\ found[n] = "none"
  <2> DEFINE oNew == IF oItem.refs = 1 THEN [refs |-> 0, made |-> FALSE]
                     ELSE [oItem EXCEPT !.refs = @ - 1]
  <2>1. oNamedPipes' = [oNamedPipes EXCEPT ![n] = oNew]
    BY <1>0 DEF ClosePipe
  <2>2. [oItem EXCEPT !.refs = @ - 1]
          = [refs |-> Cardinality(Users(n)) - 1, made |-> oItem.made]
    BY <1>4
  <2> HIDE DEF oItem
  <2>3. CASE oItem.refs = 1
    <3>1. oNew = [refs |-> 0, made |-> FALSE]
      BY <2>3
    <3>2. Users(n)' = {} /\ Cardinality(Users(n)') = 0
      BY <1>3, <1>4, <2>3
    <3> HIDE DEF oNew
    <3>3. oNew \in [refs : Nat, made : BOOLEAN] /\ oNew.refs = 0
      BY <3>1
    <3>4. ~oNew.made
      BY <3>1
    <3>5. QED
      BY <2>1, <3>2, <3>3, <3>4
  <2>4. CASE oItem.refs # 1
    <3>1. oNew = [refs |-> Cardinality(Users(n)) - 1, made |-> oItem.made]
      BY <2>2, <2>4
    <3>2. Users(n)' # {} /\ Cardinality(Users(n)') \in Nat
      BY <1>3, <1>4, <2>4
    <3> HIDE DEF oNew
    <3>3. /\ oNew \in [refs : Nat, made : BOOLEAN]
          /\ oNew.refs = Cardinality(Users(n)')
      BY <1>3, <1>4, <3>1, <3>2
    <3>4. oNew.made <=> oItem.made
      BY <3>1
    <3>5. QED
      BY <1>4, <2>1, <3>2, <3>3, <3>4
  <2>5. QED
    BY <2>3, <2>4
<1>7. /\ oNamedPipes' \in [Names -> [refs : Nat, made : BOOLEAN]]
      /\ oNamedPipes'[n].refs = Cardinality(Users(n)')
      /\ oNamedPipes'[n].made <=> Users(n)' # {} /\ found[n] = "none"
      /\ \A m \in Names \ {n} : oNamedPipes'[m] = oNamedPipes[m]
  BY <1>1, <1>6 DEF NamesInv
<1>8. ASSUME NEW m \in Names
      PROVE  /\ oNamedPipes'[m].refs = Cardinality(Users(m)')
             /\ oNamedPipes'[m].made <=> Users(m)' # {} /\ found'[m] = "none"
             /\ node'[m] = IF Users(m)' = {} THEN found'[m] ELSE "fifo"
             /\ found'[m] = "file" => Users(m)' = {}
  <2>1. CASE m = n
    <3>1. found[n] # "file" /\ found' = found
      BY <1>1, <1>4
    <3>2. found'[n] = "file" => Users(n)' = {}
      BY <3>1
    <3>3. node'[n] = IF Users(n)' = {} THEN found'[n] ELSE "fifo"
      BY <3>1, <1>5
    <3>4. oNamedPipes'[n].made <=> Users(n)' # {} /\ found'[n] = "none"
      BY <3>1, <1>7
    <3>5. QED
      BY <2>1, <3>2, <3>3, <3>4, <1>7
  <2>2. CASE m # n
    BY <2>2, <1>1, <1>2, <1>5, <1>7 DEF NamesInv
  <2>3. QED
    BY <2>1, <2>2
<1>9. /\ name_' \in [PipeStreams -> Names]
      /\ at' \in [PipeStreams -> {"open", "opening", "write", "closed", "failed"}]
      /\ \A t \in isOpen' : t \in PipeStreams /\ at'[t] = "write"
      /\ found' \in [Names -> {"none", "fifo", "file"}]
  BY <1>1 DEF NamesInv
<1>10. QED
  BY <1>5, <1>7, <1>8, <1>9 DEF NamesInv

LEMMA NamesStep == NamesInv /\ [StreamsNext]_allVars => NamesInv'
<1> SUFFICES ASSUME NamesInv, [StreamsNext]_allVars PROVE NamesInv'
  OBVIOUS
<1>1. ASSUME UNCHANGED <<name_, at, isOpen, oNamedPipes, node, found>>
      PROVE  NamesInv'
  <2>1. \A n : Users(n)' = Users(n)
    BY <1>1 DEF Users
  <2>2. QED
    BY <1>1, <2>1 DEF NamesInv
<1>2. ASSUME NEW s \in PipeStreams, NotAPipe(s) PROVE NamesInv'
  <2>1. s \notin isOpen /\ Move(s, "open", "failed")
    BY <1>2 DEF NamesInv, NotAPipe, Move
  <2>2. UNCHANGED <<name_, oNamedPipes, node, found, isOpen>>
    BY <1>2 DEF NotAPipe, setting
  <2>3. QED
    BY <2>1, <2>2, SameUsers
<1>3. ASSUME NEW s \in PipeStreams, OpenPipe(s) \/ OpenIsInterrupted(s)
      PROVE  NamesInv'
  <2>1. /\ Move(s, "opening", "write")
        /\ UNCHANGED <<name_, oNamedPipes, node, found>>
        /\ isOpen' = isOpen \cup {s} \/ isOpen' = isOpen
    BY <1>3 DEF OpenPipe, OpenIsInterrupted, setting
  <2>2. QED
    BY <2>1, SameUsers
<1>4. CASE UNCHANGED pipeVars \/ \E n \in Names : ReaderEnds(n)
  BY <1>1, <1>4 DEF ReaderEnds, pipeVars, setting
<1>5. QED
  BY <1>2, <1>3, <1>4, RegisterKeeps, CloseKeeps
     DEF StreamsNext, PipeStep, allVars

(* The entry of a name counts the streams that use its pipe.               *)
THEOREM PipesAreCounted == StreamsSpec => []NamesInv
  BY StartNames, NamesStep, PTL DEF StreamsSpec

(* No pipe is removed while a stream has it open; those made are removed,  *)
(* and those found stay.                                                   *)
THEOREM PipesStayAndGo ==
  StreamsSpec => /\ [](\A s \in isOpen : node[name_[s]] = "fifo")
                 /\ [](PipesAreOver => node = found)
<1>1. ASSUME NamesInv, NEW s \in isOpen PROVE node[name_[s]] = "fifo"
  <2>1. s \in PipeStreams /\ name_[s] \in Names /\ s \in Users(name_[s])
    BY <1>1 DEF NamesInv, Users
  <2>2. QED
    BY <1>1, <2>1 DEF NamesInv
<1>2. ASSUME NamesInv, PipesAreOver PROVE node = found
  <2>1. \A n : Users(n) = {}
    BY <1>2 DEF PipesAreOver, Users
  <2>2. QED
    BY <1>2, <2>1 DEF NamesInv
<1>3. NamesInv => /\ \A s \in isOpen : node[name_[s]] = "fifo"
                  /\ PipesAreOver => node = found
  BY <1>1, <1>2
<1>4. QED
  BY <1>3, PipesAreCounted, PTL
=============================================================================
