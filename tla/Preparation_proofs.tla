-------------------------- MODULE Preparation_proofs --------------------------
(***************************************************************************)
(* Proofs about Preparation, for every value of its constants: the order of *)
(* any number of plugins, folders and masters, and any graph of dependencies*)
(* between them; the layout of any package by any operations, and what any  *)
(* installer leaves in its stage.  UmoTool, the helper that downloads what  *)
(* is prepared, follows at the end.                                         *)
(***************************************************************************)
EXTENDS
    Preparation, UmoTool, FiniteSetTheorems, FunctionTheorems, SequenceTheorems,
    WellFoundedInduction, TLAPS

-----------------------------------------------------------------------------
(* What the headers say. *)

\* A non-empty set of positions in a sequence has a greatest member.
LEMMA Greatest ==
    ASSUME NEW n \in Nat, NEW S \in SUBSET (1..n), S # {}
    PROVE  \E x \in S : \A y \in S : y <= x
<1> DEFINE T == {n - x : x \in S}
<1>1. T \subseteq Nat /\ T # {}
  <2>1. PICK x \in S : TRUE
    OBVIOUS
  <2>2. n - x \in T
    BY <2>1
  <2>3. \A y \in S : n - y \in Nat
    OBVIOUS
  <2> QED
    BY <2>2, <2>3
<1>2. PICK t \in T : \A u \in T : ~ (<<u, t>> \in OpToRel(<, Nat))
  BY <1>1, NatLessThanWellFounded, WFMin
<1>3. PICK x \in S : t = n - x
  OBVIOUS
<1>4. ASSUME NEW y \in S PROVE y <= x
  <2>1. n - y \in T /\ n - y \in Nat /\ t \in Nat
    BY <1>1
  <2>2. ~ (n - y < t)
    BY <2>1, <1>2 DEF OpToRel
  <2> QED
    BY <2>2, <1>3
<1> QED
  BY <1>4

\* A plugin is absent, broken, or has the masters that its header names.
LEMMA HeaderType ==
    ASSUME request \in Request, NEW name \in Names
    PROVE  /\ Header(name) \in {Absent, Broken} \cup Seq(Names)
           /\ Readable(name) => Header(name) \in Seq(Names)
<1> DEFINE having == {r \in DOMAIN request.roots : request.roots[r][name] # Absent}
<1>1. CASE having = {}
  BY <1>1 DEF Header, Readable
<1>2. CASE having # {}
  <2>1. request.roots \in Seq([Names -> {Absent, Broken} \cup Seq(Names)])
    BY DEF Request
  <2>2. Len(request.roots) \in Nat /\ having \in SUBSET (1..Len(request.roots))
    BY <2>1
  <2>3. \E r \in having : \A s \in having : s <= r
    BY <1>2, <2>2, Greatest
  <2>4. PICK r \in having : Header(name) = request.roots[r][name]
    BY <1>2, <2>3 DEF Header
  <2>5. request.roots[r] \in [Names -> {Absent, Broken} \cup Seq(Names)]
    BY <2>1, <2>2
  <2> QED
    BY <2>4, <2>5 DEF Readable
<1> QED
  BY <1>1, <1>2 DEF Readable

\* The content of a request is a list of names.
LEMMA ContentType ==
    ASSUME request \in Request
    PROVE  /\ Content \in Seq(Names) /\ Len(Content) \in Nat
           /\ \A i \in Positions : Content[i] \in Names
<1>1. request.server \in Seq(Names) /\ request.local \in Seq(Names)
  BY DEF Request
<1>2. Content \in Seq(Names)
  BY <1>1 DEF Content
<1>3. Len(Content) \in Nat /\ \A i \in 1..Len(Content) : Content[i] \in Names
  BY <1>2
<1> QED
  BY <1>2, <1>3 DEF Positions

\* With every master there, the masters are positions of the content.
LEMMA DepsType ==
    ASSUME request \in Request, Present, NEW i \in Positions
    PROVE  /\ Deps(i) \in Seq(Positions) /\ Len(Deps(i)) \in Nat
           /\ DOMAIN Deps(i) = 1..Len(Deps(i))
           /\ DOMAIN Deps(i) = DOMAIN Header(Content[i])
           /\ \A k \in DOMAIN Deps(i) :
                 Deps(i)[k] \in Positions /\ Content[Deps(i)[k]] = Header(Content[i])[k]
<1> DEFINE h == Header(Content[i])
<1>1. h \in Seq(Names)
  BY ContentType, HeaderType DEF Present
<1>2. ASSUME NEW k \in DOMAIN h
      PROVE  PositionOf(h[k]) \in Positions /\ Content[PositionOf(h[k])] = h[k]
  <2>1. \E j \in Positions : Content[j] = h[k]
    BY DEF Present
  <2> QED
    BY <2>1 DEF PositionOf
<1>3. Deps(i) = [k \in DOMAIN h |-> PositionOf(h[k])]
  BY DEF Deps
<1>4. DOMAIN h = 1..Len(h) /\ Len(h) \in Nat
  BY <1>1
<1>5. Deps(i) \in [1..Len(h) -> Positions]
  BY <1>2, <1>3, <1>4
<1>6. Deps(i) \in Seq(Positions) /\ Len(Deps(i)) = Len(h)
  BY <1>4, <1>5
<1> QED
  BY <1>2, <1>3, <1>4, <1>6

-----------------------------------------------------------------------------
(* The walk. *)

\* The colors say what the stack and the order hold: a plugin being visited is
\* on the stack once, a placed one is in the order once, and the masters that a
\* visit has gone past are placed.
Walk ==
    /\ \A i \in Positions : color[i] = 2 => \E b \in DOMAIN order : order[b] = i
    /\ \A b \in DOMAIN order : color[order[b]] = 2
    /\ \A a, b \in DOMAIN order : order[a] = order[b] => a = b
    /\ \A f \in DOMAIN stack : color[stack[f].at] = 1
    /\ \A f, g \in DOMAIN stack : stack[f].at = stack[g].at => f = g
    /\ \A f \in DOMAIN stack : \A k \in DOMAIN Deps(stack[f].at) :
          k < stack[f].dep => color[Deps(stack[f].at)[k]] = 2

Inv ==
    /\ OrderTypeOK
    /\ verdict = "index" => Ready
    /\ verdict \in {"visit", "ordered"} => WithinLimits /\ Distinct /\ Present
    /\ Walk
    /\ MastersFirst
    /\ AcceptedIsUsable

\* Nothing is visited yet.
LEMMA InitInv == OrderInit => Inv
<1> SUFFICES ASSUME OrderInit PROVE Inv
  OBVIOUS
<1>1. request \in Request
  BY RequestAssumption DEF OrderInit
<1>2. OrderTypeOK
  BY <1>1 DEF OrderInit, Ready, OrderTypeOK
<1>3. Walk /\ MastersFirst
  BY DEF OrderInit, Ready, Walk, MastersFirst
<1> QED
  BY <1>2, <1>3 DEF OrderInit, Ready, Inv, AcceptedIsUsable

\* The arguments stay, and with them all that the headers say.
LEMMA SameRequest ==
    ASSUME request' = request
    PROVE  /\ Content' = Content /\ Positions' = Positions
           /\ \A i : Deps(i)' = Deps(i)
           /\ \A n : Header(n)' = Header(n)
           /\ WithinLimits' = WithinLimits /\ Distinct' = Distinct /\ Present' = Present
<1>1. Content' = Content /\ Positions' = Positions
  BY DEF Content, Positions
<1>2. \A n : Header(n)' = Header(n)
  BY DEF Header
<1>3. \A n : PositionOf(n)' = PositionOf(n)
  BY <1>1 DEF PositionOf
<1>4. \A i : Deps(i)' = Deps(i)
  BY <1>1, <1>2, <1>3 DEF Deps
<1> QED
  BY <1>1, <1>2, <1>4 DEF WithinLimits, Distinct, Present, Readable

\* The two sorted lists depend on the request and the order alone.
LEMMA SameOrder ==
    ASSUME request' = request, order' = order
    PROVE  MastersFirst' = MastersFirst /\ Ordered' = Ordered
BY SameRequest DEF MastersFirst, Ordered

\* The calls that are active.
LEMMA FrameType ==
    ASSUME OrderTypeOK
    PROVE  /\ Len(stack) \in Nat /\ DOMAIN stack = 1..Len(stack)
           /\ \A f \in 1..Len(stack) :
                 stack[f].at \in Positions /\ stack[f].dep \in Nat \ {0}
<1> DEFINE frames == [at : Positions, dep : Nat \ {0}]
<1>1. stack \in Seq(frames)
  BY DEF OrderTypeOK
<1>2. \A f \in 1..Len(stack) : stack[f] \in frames
  BY <1>1, ElementOfSeq
<1>3. \A x \in frames : x.at \in Positions /\ x.dep \in Nat \ {0}
  OBVIOUS
<1> HIDE DEF frames
<1> QED
  BY <1>1, <1>2, <1>3

\* The call on top of the stack, and the master it is about to look at.
LEMMA TopOfStack ==
    ASSUME Inv, Visiting
    PROVE  /\ Len(stack) \in Nat /\ Len(stack) \in DOMAIN stack
           /\ DOMAIN stack = 1..Len(stack)
           /\ Frame = stack[Len(stack)]
           /\ Frame.at \in Positions /\ Frame.dep \in Nat \ {0}
           /\ Len(Deps(Frame.at)) \in Nat
           /\ DOMAIN Deps(Frame.at) = 1..Len(Deps(Frame.at))
           /\ MastersLeft => /\ Frame.dep \in DOMAIN Deps(Frame.at)
                             /\ Master \in Positions
<1>1. stack \in Seq([at : Positions, dep : Nat \ {0}]) /\ stack # <<>>
  BY DEF Inv, OrderTypeOK, Visiting
<1>2. Len(stack) \in Nat /\ Len(stack) \in DOMAIN stack /\ DOMAIN stack = 1..Len(stack)
  BY <1>1
<1>3. Frame \in [at : Positions, dep : Nat \ {0}]
  BY <1>1, <1>2, ElementOfSeq DEF Frame
<1>4. request \in Request /\ Present
  BY DEF Inv, OrderTypeOK, Visiting
<1>5. Frame.at \in Positions /\ Frame.dep \in Nat \ {0}
  BY <1>3
<1>6. /\ Len(Deps(Frame.at)) \in Nat
      /\ DOMAIN Deps(Frame.at) = 1..Len(Deps(Frame.at))
      /\ \A k \in DOMAIN Deps(Frame.at) : Deps(Frame.at)[k] \in Positions
  BY <1>4, <1>5, DepsType
<1>7. MastersLeft => Frame.dep \in DOMAIN Deps(Frame.at) /\ Master \in Positions
  BY <1>5, <1>6 DEF MastersLeft, Master
<1> QED
  BY <1>2, <1>5, <1>6, <1>7 DEF Frame

\* Calling visit() for a plugin that was not seen before.
LEMMA CallInv ==
    ASSUME Inv, verdict = "visit", NEW i \in Positions, color[i] = 0, Call(i),
           UNCHANGED <<request, verdict, order>>
    PROVE  Inv'
<1> DEFINE frame == [at |-> i, dep |-> 1]
<1>1. /\ color \in [Positions -> 0..2]
      /\ stack \in Seq([at : Positions, dep : Nat \ {0}])
      /\ order \in Seq(Positions)
  BY DEF Inv, OrderTypeOK
<1>2. frame \in [at : Positions, dep : Nat \ {0}]
  OBVIOUS
<1>3. color' = [color EXCEPT ![i] = 1] /\ stack' = Append(stack, frame)
  BY DEF Call
<1>4. color' \in [Positions -> 0..2]
  BY <1>1, <1>3
<1>5. /\ color'[i] = 1
      /\ \A j \in Positions : j # i => color'[j] = color[j]
      /\ \A j \in Positions : color'[j] = 2 <=> color[j] = 2
  BY <1>1, <1>3
<1>6. /\ stack' \in Seq([at : Positions, dep : Nat \ {0}])
      /\ DOMAIN stack = 1..Len(stack) /\ Len(stack) \in Nat
      /\ DOMAIN stack' = 1..(Len(stack) + 1)
      /\ stack'[Len(stack) + 1] = frame
      /\ \A f \in 1..Len(stack) : stack'[f] = stack[f]
  BY <1>1, <1>2, <1>3
<1>7. OrderTypeOK'
  BY <1>4, <1>6, SameRequest DEF Inv, OrderTypeOK
<1>8. Walk'
  <2>1. Walk /\ request \in Request /\ Present
    BY DEF Inv, OrderTypeOK
  <2>2. \A f \in 1..Len(stack) : stack[f].at \in Positions /\ stack[f].at # i
    <3>1. \A f \in 1..Len(stack) : stack[f].at \in Positions
      BY FrameType DEF Inv
    <3>2. \A f \in 1..Len(stack) : color[stack[f].at] = 1
      BY <1>6, <2>1 DEF Walk
    <3> QED
      BY <3>1, <3>2
  <2>3. DOMAIN order = 1..Len(order) /\ \A b \in DOMAIN order : order[b] \in Positions
    BY <1>1
  <2>4. /\ \A j \in Positions : color'[j] = 2 => \E b \in DOMAIN order : order[b] = j
        /\ \A b \in DOMAIN order : color'[order[b]] = 2
        /\ \A a, b \in DOMAIN order : order[a] = order[b] => a = b
    BY <1>5, <2>1, <2>3 DEF Walk
  <2>5. \A f \in DOMAIN stack' : color'[stack'[f].at] = 1
    BY <1>5, <1>6, <2>1, <2>2 DEF Walk
  <2>6. \A f, g \in DOMAIN stack' : stack'[f].at = stack'[g].at => f = g
    BY <1>6, <2>1, <2>2 DEF Walk
  <2>7. ASSUME NEW f \in DOMAIN stack', NEW k \in DOMAIN Deps(stack'[f].at),
               k < stack'[f].dep
        PROVE  color'[Deps(stack'[f].at)[k]] = 2
    <3>1. stack'[f].at \in Positions
      BY <1>6, <2>2
    <3>2. DOMAIN Deps(stack'[f].at) \subseteq Nat \ {0} /\ Deps(stack'[f].at)[k] \in Positions
      BY <2>1, <3>1, DepsType
    <3>3. f \in 1..Len(stack)
      BY <1>6, <2>7, <3>2
    <3> QED
      BY <1>5, <1>6, <2>1, <2>7, <3>2, <3>3 DEF Walk
  <2> QED
    BY <2>4, <2>5, <2>6, <2>7, SameRequest DEF Walk
<1> QED
  BY <1>7, <1>8, SameRequest, SameOrder DEF Inv, Ready, AcceptedIsUsable

\* Looking at the next master, when the last one has been placed.
LEMMA PassInv == Inv /\ Pass => Inv'
<1> SUFFICES ASSUME Inv, Pass PROVE Inv'
  OBVIOUS
<1> DEFINE n == Len(stack)
           frame == [at |-> Frame.at, dep |-> Frame.dep + 1]
<1>1. /\ Visiting /\ MastersLeft /\ color[Master] = 2
      /\ stack' = [stack EXCEPT ![n] = frame]
      /\ request' = request /\ verdict' = verdict /\ color' = color /\ order' = order
  BY DEF Pass
<1>2. OrderTypeOK /\ Walk /\ Present /\ request \in Request
  BY <1>1 DEF Inv, OrderTypeOK, Visiting
<1>3. /\ n \in DOMAIN stack /\ n \in Nat /\ DOMAIN stack = 1..n
      /\ Frame = stack[n]
      /\ Frame.at \in Positions /\ Frame.dep \in Nat \ {0}
      /\ Frame.dep \in DOMAIN Deps(Frame.at)
  BY <1>1, TopOfStack
<1>4. frame \in [at : Positions, dep : Nat \ {0}]
  BY <1>3
<1>5. /\ stack' \in Seq([at : Positions, dep : Nat \ {0}])
      /\ DOMAIN stack' = DOMAIN stack
      /\ stack'[n] = frame
      /\ \A f \in DOMAIN stack : f # n => stack'[f] = stack[f]
  <2>1. stack \in Seq([at : Positions, dep : Nat \ {0}])
    BY <1>2 DEF OrderTypeOK
  <2> HIDE DEF frame
  <2> QED
    BY <1>1, <1>3, <1>4, <2>1, ExceptSeq
<1>6. OrderTypeOK'
  BY <1>1, <1>2, <1>5, SameRequest DEF OrderTypeOK
<1>7. \A f \in DOMAIN stack : stack'[f].at = stack[f].at
  BY <1>3, <1>5
<1>8. Walk'
  <2>1. ASSUME NEW f \in DOMAIN stack', NEW k \in DOMAIN Deps(stack'[f].at),
               k < stack'[f].dep
        PROVE  color[Deps(stack'[f].at)[k]] = 2
    <3>1. stack'[f].at \in Positions /\ stack'[f].at = stack[f].at
      BY <1>2, <1>3, <1>5, <1>7, FrameType
    <3>2. k \in Nat
      BY <1>2, <3>1, DepsType
    <3>3. CASE f = n /\ k = Frame.dep
      BY <1>1, <1>3, <3>1, <3>3 DEF Master
    <3>4. CASE f = n /\ k # Frame.dep
      <4>1. k < Frame.dep
        BY <1>3, <1>5, <2>1, <3>2, <3>4
      <4> QED
        BY <1>2, <1>3, <1>5, <2>1, <3>1, <3>4, <4>1 DEF Walk
    <3>5. CASE f # n
      BY <1>2, <1>5, <2>1, <3>5 DEF Walk
    <3> QED
      BY <3>3, <3>4, <3>5
  <2>2. \A f \in DOMAIN stack' : color[stack'[f].at] = 1
    BY <1>2, <1>5, <1>7 DEF Walk
  <2>3. \A f, g \in DOMAIN stack' : stack'[f].at = stack'[g].at => f = g
    BY <1>2, <1>5, <1>7 DEF Walk
  <2> QED
    BY <1>1, <1>2, <2>1, <2>2, <2>3, SameRequest DEF Walk
<1> QED
  BY <1>1, <1>6, <1>8, SameRequest, SameOrder DEF Inv, Ready, Visiting, AcceptedIsUsable

\* visit() has placed all the masters of a plugin, and places it.
LEMMA PlaceInv == Inv /\ Place => Inv'
<1> SUFFICES ASSUME Inv, Place PROVE Inv'
  OBVIOUS
<1> DEFINE n == Len(stack)
           m == Len(order)
           frames == [at : Positions, dep : Nat \ {0}]
<1>1. /\ Visiting /\ ~MastersLeft
      /\ color' = [color EXCEPT ![Frame.at] = 2]
      /\ order' = Append(order, Frame.at)
      /\ stack' = SubSeq(stack, 1, n - 1)
      /\ request' = request /\ verdict' = verdict
  BY DEF Place
<1>2. OrderTypeOK /\ Walk /\ Present /\ MastersFirst /\ request \in Request /\ verdict = "visit"
  BY <1>1 DEF Inv, OrderTypeOK, Visiting
<1>3. /\ n \in DOMAIN stack /\ n \in Nat \ {0} /\ DOMAIN stack = 1..n
      /\ Frame = stack[n]
      /\ Frame.at \in Positions /\ Frame.dep \in Nat \ {0}
      /\ DOMAIN Deps(Frame.at) = 1..Len(Deps(Frame.at))
      /\ Len(Deps(Frame.at)) \in Nat
  BY <1>1, TopOfStack
<1>4. /\ stack' \in Seq(frames)
      /\ DOMAIN stack' = 1..(n - 1)
      /\ \A f \in 1..(n - 1) : stack'[f] = stack[f]
  <2>1. stack \in Seq(frames)
    BY <1>2 DEF OrderTypeOK
  <2> HIDE DEF frames
  <2>2. \A i \in 1..(n - 1) : stack[i] \in frames
    BY <1>3, <2>1
  <2> QED
    BY <1>1, <1>3, <2>1, <2>2, SubSeqProperties
<1>5. /\ order' \in Seq(Positions)
      /\ m \in Nat /\ DOMAIN order = 1..m /\ DOMAIN order' = 1..(m + 1)
      /\ order'[m + 1] = Frame.at
      /\ \A b \in 1..m : order'[b] = order[b] /\ order[b] \in Positions
  <2>1. order \in Seq(Positions)
    BY <1>2 DEF OrderTypeOK
  <2> QED
    BY <1>1, <1>3, <2>1
<1>6. /\ color' \in [Positions -> 0..2]
      /\ color'[Frame.at] = 2
      /\ \A j \in Positions : j # Frame.at => color'[j] = color[j]
      /\ \A j \in Positions : color[j] = 2 => color'[j] = 2
      /\ color[Frame.at] = 1
  <2>1. color \in [Positions -> 0..2]
    BY <1>2 DEF OrderTypeOK
  <2>2. color[Frame.at] = 1
    BY <1>2, <1>3 DEF Walk
  <2> QED
    BY <1>1, <1>3, <2>1, <2>2
<1>7. OrderTypeOK'
  BY <1>1, <1>2, <1>4, <1>5, <1>6, SameRequest DEF OrderTypeOK
<1>8. \A b \in 1..m : order[b] # Frame.at
  BY <1>2, <1>5, <1>6 DEF Walk
<1>9. \A f \in 1..(n - 1) : stack[f].at \in Positions /\ stack[f].at # Frame.at
  BY <1>2, <1>3, FrameType DEF Walk
<1>10. \A f \in 1..(n - 1) : f \in DOMAIN stack
  BY <1>3
<1>11. Walk'
  <2>1. \A j \in Positions : color'[j] = 2 => \E b \in DOMAIN order' : order'[b] = j
    <3> SUFFICES ASSUME NEW j \in Positions, color'[j] = 2
                 PROVE  \E b \in DOMAIN order' : order'[b] = j
      OBVIOUS
    <3>1. CASE j = Frame.at
      BY <1>5, <3>1
    <3>2. CASE j # Frame.at
      BY <1>2, <1>5, <1>6, <3>2 DEF Walk
    <3> QED
      BY <3>1, <3>2
  <2>2. \A b \in DOMAIN order' : color'[order'[b]] = 2
    BY <1>2, <1>5, <1>6 DEF Walk
  <2>3. \A a, b \in DOMAIN order' : order'[a] = order'[b] => a = b
    BY <1>2, <1>5, <1>8 DEF Walk
  <2>4. ASSUME NEW f \in DOMAIN stack' PROVE color'[stack'[f].at] = 1
    <3>1. stack'[f] = stack[f] /\ f \in DOMAIN stack
      BY <1>4, <1>10
    <3>2. stack[f].at \in Positions /\ stack[f].at # Frame.at
      BY <1>4, <1>9
    <3>3. color[stack[f].at] = 1
      BY <1>2, <3>1 DEF Walk
    <3> QED
      BY <1>6, <3>1, <3>2, <3>3
  <2>5. \A f, g \in DOMAIN stack' : stack'[f].at = stack'[g].at => f = g
    BY <1>2, <1>4, <1>10 DEF Walk
  <2>6. ASSUME NEW f \in DOMAIN stack', NEW k \in DOMAIN Deps(stack'[f].at),
               k < stack'[f].dep
        PROVE  color'[Deps(stack'[f].at)[k]] = 2
    <3>1. color[Deps(stack[f].at)[k]] = 2
      BY <1>2, <1>4, <1>10, <2>6, SMTT(30) DEF Walk
    <3>2. Deps(stack[f].at)[k] \in Positions
      BY <1>2, <1>4, <1>9, <2>6, DepsType
    <3> QED
      BY <1>4, <1>6, <3>1, <3>2
  <2> QED
    BY <1>1, <2>1, <2>2, <2>3, <2>4, <2>5, <2>6, SameRequest DEF Walk
<1>12. MastersFirst'
  <2>1. ASSUME NEW b \in DOMAIN order', NEW k \in DOMAIN Deps(order'[b])
        PROVE  \E a \in DOMAIN order' : a < b /\ order'[a] = Deps(order'[b])[k]
    <3>1. CASE b \in 1..m
      <4>1. PICK a \in 1..m : a < b /\ order[a] = Deps(order[b])[k]
        BY <1>2, <1>5, <3>1 DEF MastersFirst
      <4> QED
        BY <1>5, <3>1, <4>1
    <3>2. CASE b = m + 1
      <4>1. k \in DOMAIN Deps(Frame.at) /\ k < Frame.dep
        BY <1>1, <1>3, <1>5, <3>2 DEF MastersLeft
      <4>2. color[Deps(Frame.at)[k]] = 2
        BY <1>2, <1>3, <4>1 DEF Walk
      <4>3. Deps(Frame.at)[k] \in Positions
        BY <1>2, <1>3, <4>1, DepsType
      <4>4. PICK a \in 1..m : order[a] = Deps(Frame.at)[k]
        BY <1>2, <1>5, <4>2, <4>3 DEF Walk
      <4> QED
        BY <1>5, <3>2, <4>4
    <3> QED
      BY <1>5, <3>1, <3>2
  <2>2. \A i : Deps(i)' = Deps(i)
    BY <1>1, SameRequest
  <2>3. ASSUME NEW b \in DOMAIN order' PROVE Deps(order[b])' = Deps(order'[b])
    BY <2>2
  <2> QED
    BY <2>1, <2>3, Zenon DEF MastersFirst
<1> QED
  BY <1>1, <1>2, <1>7, <1>11, <1>12, SameRequest DEF Inv, Ready, AcceptedIsUsable

-----------------------------------------------------------------------------
(* The result. *)

\* Whether a list is usable depends on the request and the order alone.
LEMMA SameUsable ==
    ASSUME request' = request, order' = order
    PROVE  Usable(Ordered)' = Usable(Ordered)
<1>1. Filtered(Ordered)' = Filtered(Ordered)
  BY SameRequest, SameOrder DEF Filtered
<1> QED
  BY <1>1, SameRequest, SameOrder DEF Usable, Readable

\* When every plugin is placed, the order is a permutation of the content.
LEMMA PlacedOnce ==
    ASSUME OrderTypeOK, Walk, \A i \in Positions : color[i] = 2
    PROVE  DOMAIN order = Positions
<1> DEFINE m == Len(order)
           n == Len(Content)
<1>1. /\ order \in Seq(Positions) /\ m \in Nat /\ DOMAIN order = 1..m
      /\ n \in Nat /\ Positions = 1..n
  BY ContentType DEF OrderTypeOK, Positions
<1>2. order \in [1..m -> 1..n]
  BY <1>1
<1>3. \A i \in 1..n : \E b \in 1..m : order[b] = i
  BY <1>1 DEF Walk
<1>4. \A a, b \in 1..m : order[a] = order[b] => a = b
  BY <1>1 DEF Walk
<1>5. ExistsBijection(1..m, 1..n)
  BY <1>2, <1>3, <1>4, Fun_IsBij DEF ExistsBijection
<1>6. IsFiniteSet(1..m) /\ Cardinality(1..m) = m /\ Cardinality(1..n) = n
  <2>1. ASSUME NEW k \in Nat PROVE IsFiniteSet(1..k) /\ Cardinality(1..k) = k
    <3>1. IsFiniteSet(1..k) /\ Cardinality(1..k) = IF 1 > k THEN 0 ELSE k - 1 + 1
      BY FS_Interval
    <3> QED
      BY <3>1
  <2> QED
    BY <1>1, <2>1
<1>7. m = n
  BY <1>5, <1>6, FS_Bijection
<1> QED
  BY <1>1, <1>7

\* A finished walk whose order agrees with the server's is usable.
LEMMA PlacedIsUsable ==
    ASSUME OrderTypeOK, Distinct, Present, Walk, MastersFirst,
           \A i \in Positions : color[i] = 2,
           Filtered(Ordered) = request.server
    PROVE  Usable(Ordered)
<1>1. /\ DOMAIN order = Positions
      /\ \A b \in Positions : order[b] \in Positions
      /\ request \in Request
  <2>1. order \in Seq(Positions) /\ request \in Request
    BY DEF OrderTypeOK
  <2> QED
    BY <2>1, PlacedOnce
<1>2. DOMAIN Ordered = Positions /\ \A b \in Positions : Ordered[b] = Content[order[b]]
  BY <1>1 DEF Ordered
<1>3. \A i \in Positions : \E j \in Positions : Ordered[j] = Content[i]
  BY <1>1, <1>2 DEF Walk
<1>4. \A i, j \in Positions : Ordered[i] = Ordered[j] => i = j
  BY <1>1, <1>2 DEF Walk, Distinct
<1>5. ASSUME NEW b \in Positions
      PROVE  /\ Readable(Ordered[b])
             /\ \A k \in DOMAIN Header(Ordered[b]) :
                   \E a \in Positions : a < b /\ Ordered[a] = Header(Ordered[b])[k]
  <2>1. Readable(Ordered[b])
    BY <1>1, <1>2 DEF Present
  <2>2. ASSUME NEW k \in DOMAIN Header(Ordered[b])
        PROVE  \E a \in Positions : a < b /\ Ordered[a] = Header(Ordered[b])[k]
    <3>1. order[b] \in Positions /\ Ordered[b] = Content[order[b]]
      BY <1>1, <1>2
    <3>2. /\ DOMAIN Deps(order[b]) = DOMAIN Header(Content[order[b]])
          /\ \A l \in DOMAIN Deps(order[b]) :
                Content[Deps(order[b])[l]] = Header(Content[order[b]])[l]
      BY <1>1, <3>1, DepsType
    <3>3. k \in DOMAIN Deps(order[b]) /\ Content[Deps(order[b])[k]] = Header(Ordered[b])[k]
      BY <3>1, <3>2
    <3>4. PICK a \in Positions : a < b /\ order[a] = Deps(order[b])[k]
      BY <1>1, <3>3 DEF MastersFirst
    <3> QED
      BY <1>2, <3>3, <3>4
  <2> QED
    BY <2>1, <2>2
<1> QED
  BY <1>2, <1>3, <1>4, <1>5 DEF Usable

\* The verdict is the comparison with the server's order.
LEMMA CompareInv == Inv /\ Compare => Inv'
<1> SUFFICES ASSUME Inv, Compare PROVE Inv'
  OBVIOUS
<1>1. /\ verdict = "visit"
      /\ \A i \in Positions : color[i] = 2
      /\ verdict' = IF Filtered(Ordered) = request.server THEN "ordered" ELSE "refused"
      /\ request' = request /\ color' = color /\ stack' = stack /\ order' = order
  BY DEF Compare
<1>2. OrderTypeOK /\ WithinLimits /\ Distinct /\ Present /\ Walk /\ MastersFirst
  BY <1>1 DEF Inv
<1>3. verdict' = "ordered" => WithinLimits /\ Usable(Ordered)
  BY <1>1, <1>2, PlacedIsUsable
<1>4. AcceptedIsUsable'
  BY <1>1, <1>3, SameUsable, SameRequest DEF AcceptedIsUsable
<1>5. OrderTypeOK' /\ Walk'
  BY <1>1, <1>2, SameRequest DEF OrderTypeOK, Walk
<1> QED
  BY <1>1, <1>2, <1>4, <1>5, SameRequest, SameOrder DEF Inv, Ready

\* The steps that look at a header, at a cycle or at nothing.
LEMMA OtherInv == Inv /\ (Index \/ Cycle \/ UNCHANGED orderVars) => Inv'
<1>1. ASSUME Inv, request' = request, color' = color, stack' = stack, order' = order
      PROVE  /\ Walk' /\ MastersFirst'
             /\ WithinLimits' = WithinLimits /\ Distinct' = Distinct /\ Present' = Present
             /\ verdict' \in {"index", "visit", "ordered", "refused"} => OrderTypeOK'
             /\ verdict' = verdict => AcceptedIsUsable' /\ (verdict = "index" => Ready')
  BY <1>1, SameRequest, SameOrder, SameUsable
     DEF Inv, OrderTypeOK, Walk, AcceptedIsUsable, Ready
<1>2. ASSUME Inv, Index PROVE Inv'
  BY <1>1, <1>2 DEF Index, Inv, AcceptedIsUsable
<1>3. ASSUME Inv, Cycle PROVE Inv'
  BY <1>1, <1>3 DEF Cycle, Inv, AcceptedIsUsable
<1>4. ASSUME Inv, UNCHANGED orderVars PROVE Inv'
  BY <1>1, <1>4 DEF orderVars, Inv, OrderTypeOK
<1> QED
  BY <1>2, <1>3, <1>4

\* Every step keeps the invariant.
LEMMA NextInv == Inv /\ [OrderNext]_orderVars => Inv'
<1> SUFFICES ASSUME Inv, [OrderNext]_orderVars PROVE Inv'
  OBVIOUS
<1>1. CASE Index \/ Cycle \/ UNCHANGED orderVars
  BY <1>1, OtherInv
<1>2. CASE Descend
  BY <1>2, TopOfStack, CallInv DEF Descend, Visiting
<1>3. CASE Pass
  BY <1>3, PassInv
<1>4. CASE Place
  BY <1>4, PlaceInv
<1>5. CASE Compare
  BY <1>5, CompareInv
<1>6. CASE Finished
  BY <1>6, OtherInv DEF Finished
<1>7. ASSUME NEW i \in Positions, Start(i) PROVE Inv'
  BY <1>7, CallInv DEF Start
<1> QED
  BY <1>1, <1>2, <1>3, <1>4, <1>5, <1>6, <1>7 DEF OrderNext

-----------------------------------------------------------------------------
(* The theorems. *)

\* The walk keeps its state well typed, whatever the headers name: it asks no
\* plugin for a master that the content does not have.
THEOREM LoadOrderTyped == OrderSpec => []OrderTypeOK
<1>1. OrderSpec => []Inv
  BY InitInv, NextInv, PTL DEF OrderSpec
<1>2. Inv => OrderTypeOK
  BY DEF Inv
<1> QED
  BY <1>1, <1>2, PTL

\* At every moment of the walk, whatever is placed has its masters before it
\* (native_backend.cpp:734-747).
THEOREM MastersComeFirst == OrderSpec => []MastersFirst
<1>1. OrderSpec => []Inv
  BY InitInv, NextInv, PTL DEF OrderSpec
<1>2. Inv => MastersFirst
  BY DEF Inv
<1> QED
  BY <1>1, <1>2, PTL

\* An order that is accepted holds all the content once, has every master
\* before the plugin that needs it, and keeps the server's own order
\* (native_backend.cpp:711-753).
THEOREM AcceptedOrdersAreUsable == OrderSpec => []AcceptedIsUsable
<1>1. OrderSpec => []Inv
  BY InitInv, NextInv, PTL DEF OrderSpec
<1>2. Inv => AcceptedIsUsable
  BY DEF Inv
<1> QED
  BY <1>1, <1>2, PTL

-----------------------------------------------------------------------------
(* What is kept of a list.                                                 *)

\* Induction up to a number: what holds of 0 and goes from each number to the next
\* holds of all.
LEMMA Upwards ==
    ASSUME NEW n \in Nat, NEW S, 0 \in S, \A m \in 1..n : m - 1 \in S => m \in S
    PROVE  \A m \in 0..n : m \in S
<1> DEFINE T == {m \in 0..n : m \notin S}
<1> SUFFICES ASSUME T # {} PROVE FALSE
  OBVIOUS
<1>1. T \subseteq Nat
  OBVIOUS
<1>2. PICK t \in T : \A u \in T : ~ (<<u, t>> \in OpToRel(<, Nat))
  BY <1>1, NatLessThanWellFounded, WFMin
<1>3. t \in 0..n /\ t \notin S /\ t # 0
  OBVIOUS
<1>4. t - 1 \in 0..n /\ t \in 1..n
  BY <1>3
<1>5. t - 1 \in T
  BY <1>3, <1>4
<1>6. <<t - 1, t>> \in OpToRel(<, Nat)
  BY <1>3, <1>4 DEF OpToRel
<1> QED
  BY <1>2, <1>5, <1>6

\* One turn of the loop that keeps names.
KeptStep(g, names, kept, n) ==
    IF n = 0 THEN <<>>
    ELSE IF names[n] \in kept THEN Append(g[n - 1], names[n])
    ELSE g[n - 1]

\* The loop runs to its end, so what is kept is what its turns make.
LEMMA KeptExists ==
    ASSUME NEW names, Len(names) \in Nat, NEW kept
    PROVE  \E g : /\ g = [n \in 0..Len(names) |-> KeptStep(g, names, kept, n)]
                  /\ Restricted(names, kept) = g[Len(names)]
<1> DEFINE P(m) == \E g : g = [n \in 0..m |-> KeptStep(g, names, kept, n)]
           S == {m \in 0..Len(names) : P(m)}
<1>1. 0 \in S
  <2> DEFINE g == [n \in 0..0 |-> <<>>]
  <2>1. \A n \in 0..0 : KeptStep(g, names, kept, n) = <<>>
    BY DEF KeptStep
  <2>2. g = [n \in 0..0 |-> KeptStep(g, names, kept, n)]
    BY <2>1
  <2>3. P(0)
    BY <2>2
  <2> QED
    BY <2>3
<1>2. ASSUME NEW m \in 1..Len(names), m - 1 \in S PROVE m \in S
  <2>1. PICK g : g = [n \in 0..(m - 1) |-> KeptStep(g, names, kept, n)]
    BY <1>2
  <2> DEFINE h == [n \in 0..m |-> KeptStep(g, names, kept, n)]
  <2>2. \A n \in 0..(m - 1) : h[n] = g[n]
    BY <2>1
  <2>3. ASSUME NEW n \in 0..m PROVE KeptStep(h, names, kept, n) = KeptStep(g, names, kept, n)
    <3>1. n # 0 => h[n - 1] = g[n - 1]
      BY <2>2
    <3> HIDE DEF h
    <3> QED
      BY <3>1 DEF KeptStep
  <2>4. h = [n \in 0..m |-> KeptStep(h, names, kept, n)]
    BY <2>3
  <2> HIDE DEF h
  <2>5. P(m)
    BY <2>4
  <2> QED
    BY <2>5
<1>3. Len(names) \in S
  <2> DEFINE top == Len(names)
  <2> HIDE DEF S, top
  <2>1. top \in Nat /\ \A m \in 1..top : m - 1 \in S => m \in S
    BY <1>2 DEF top
  <2>2. \A m \in 0..top : m \in S
    BY <1>1, <2>1, Upwards
  <2> QED
    BY <2>1, <2>2 DEF top
<1>4. P(Len(names))
  BY <1>3
<1>5. Restricted(names, kept) =
      (CHOOSE h : h = [n \in 0..Len(names) |-> KeptStep(h, names, kept, n)])[Len(names)]
  BY DEF Restricted, KeptStep
<1> QED
  BY <1>4, <1>5

\* A list s holds the kept ones of the first n names, in their order: spot has their
\* places.
KeepsAt(spot, s, names, kept, n) ==
    /\ \A k \in 1..Len(s) : s[k] = names[spot[k]] /\ names[spot[k]] \in kept
    /\ \A k, l \in 1..Len(s) : k < l => spot[k] < spot[l]
    /\ \A i \in 1..n : names[i] \in kept => \E k \in 1..Len(s) : spot[k] = i

Keeps(s, names, kept, n) == \E spot \in [1..Len(s) -> 1..n] : KeepsAt(spot, s, names, kept, n)

\* Keeping another name, or leaving it out.
LEMMA KeepsMore ==
    ASSUME NEW V, NEW names \in Seq(V), NEW kept, NEW n \in 1..Len(names),
           NEW s \in Seq(V), Keeps(s, names, kept, n - 1),
           NEW t, t = IF names[n] \in kept THEN Append(s, names[n]) ELSE s
    PROVE  t \in Seq(V) /\ Keeps(t, names, kept, n)
<1> DEFINE top == Len(s)
<1>1. /\ n \in Nat /\ top \in Nat /\ names[n] \in V
      /\ \A i \in 1..n : i = n \/ i \in 1..(n - 1)
      /\ 1..(n - 1) \subseteq 1..n /\ n \in 1..n
  OBVIOUS
<1>2. PICK spot \in [1..top -> 1..(n - 1)] :
        /\ \A k \in 1..top : s[k] = names[spot[k]] /\ names[spot[k]] \in kept
        /\ \A k, l \in 1..top : k < l => spot[k] < spot[l]
        /\ \A i \in 1..(n - 1) : names[i] \in kept => \E k \in 1..top : spot[k] = i
  BY DEF Keeps, KeepsAt
<1>3. CASE names[n] \notin kept
  <2>1. t = s /\ spot \in [1..top -> 1..n]
    BY <1>1, <1>3
  <2>2. \A i \in 1..n : names[i] \in kept => \E k \in 1..top : spot[k] = i
    BY <1>1, <1>2, <1>3
  <2>3. spot \in [1..Len(t) -> 1..n] /\ KeepsAt(spot, t, names, kept, n)
    BY <1>2, <2>1, <2>2 DEF KeepsAt
  <2> QED
    BY <2>1, <2>3 DEF Keeps
<1>4. CASE names[n] \in kept
  <2> DEFINE more == [k \in 1..(top + 1) |-> IF k = top + 1 THEN n ELSE spot[k]]
  <2>1. /\ t \in Seq(V) /\ Len(t) = top + 1 /\ t[top + 1] = names[n]
        /\ \A k \in 1..top : t[k] = s[k]
    BY <1>1, <1>4
  <2> HIDE DEF top
  <2>2. /\ more[top + 1] = n
        /\ \A k \in 1..top : more[k] = spot[k] /\ spot[k] \in 1..(n - 1)
        /\ \A k \in 1..(top + 1) : k = top + 1 \/ k \in 1..top
        /\ 1..top \subseteq 1..(top + 1) /\ top + 1 \in 1..(top + 1)
    <3>1. \A k \in 1..top : k \in 1..(top + 1) /\ k # top + 1 /\ spot[k] \in 1..(n - 1)
      BY <1>1
    <3> QED
      BY <1>1, <3>1
  <2>3. more \in [1..(top + 1) -> 1..n]
    BY <1>1, <2>2
  <2> HIDE DEF more
  <2>4. \A k \in 1..(top + 1) : t[k] = names[more[k]] /\ names[more[k]] \in kept
    BY <1>2, <1>4, <2>1, <2>2
  <2>5. ASSUME NEW k \in 1..(top + 1), NEW l \in 1..(top + 1), k < l
        PROVE  more[k] < more[l]
    <3>1. k \in 1..top
      <4>1. k <= top + 1 /\ l <= top + 1 /\ k \in Nat /\ l \in Nat /\ 1 <= k
        BY <1>1
      <4> QED
        BY <1>1, <2>5, <4>1
    <3>2. CASE l = top + 1
      BY <1>1, <2>2, <3>1, <3>2
    <3>3. CASE l \in 1..top
      BY <1>2, <2>2, <2>5, <3>1, <3>3
    <3> QED
      BY <2>2, <3>2, <3>3
  <2>6. \A i \in 1..n : names[i] \in kept => \E k \in 1..(top + 1) : more[k] = i
    BY <1>1, <1>2, <2>2
  <2>7. more \in [1..Len(t) -> 1..n] /\ KeepsAt(more, t, names, kept, n)
    BY <2>1, <2>3, <2>4, <2>5, <2>6 DEF KeepsAt
  <2> QED
    BY <2>1, <2>7 DEF Keeps
<1> QED
  BY <1>3, <1>4

\* What is kept of a list are its kept names, each as often and in the same order.
LEMMA RestrictedKeeps ==
    ASSUME NEW V, NEW names \in Seq(V), NEW kept
    PROVE  /\ Restricted(names, kept) \in Seq(V)
           /\ Keeps(Restricted(names, kept), names, kept, Len(names))
<1> DEFINE top == Len(names)
<1>1. top \in Nat
  OBVIOUS
<1>2. PICK g : /\ g = [n \in 0..top |-> KeptStep(g, names, kept, n)]
               /\ Restricted(names, kept) = g[top]
  BY <1>1, KeptExists
<1> DEFINE S == {n \in 0..top : g[n] \in Seq(V) /\ Keeps(g[n], names, kept, n)}
<1>3. \A n \in 0..top : g[n] = KeptStep(g, names, kept, n)
  BY <1>2
<1>4. 0 \in S
  <2>1. g[0] = <<>>
    BY <1>1, <1>3 DEF KeptStep
  <2> DEFINE none == [k \in 1..0 |-> 0]
  <2>2. Len(g[0]) = 0 /\ g[0] \in Seq(V) /\ none \in [1..0 -> 1..0] /\ 1..0 = {} /\ 0 \in 0..top
    BY <1>1, <2>1
  <2> HIDE DEF none
  <2>3. none \in [1..Len(g[0]) -> 1..0] /\ 1..Len(g[0]) = {}
    BY <2>2
  <2>4. KeepsAt(none, g[0], names, kept, 0)
    BY <2>2, <2>3 DEF KeepsAt
  <2>5. Keeps(g[0], names, kept, 0)
    BY <2>3, <2>4 DEF Keeps
  <2> QED
    BY <2>2, <2>5
<1>5. ASSUME NEW n \in 1..top, n - 1 \in S PROVE n \in S
  <2>1. g[n] = IF names[n] \in kept THEN Append(g[n - 1], names[n]) ELSE g[n - 1]
    BY <1>1, <1>3 DEF KeptStep
  <2>2. g[n - 1] \in Seq(V) /\ Keeps(g[n - 1], names, kept, n - 1)
    BY <1>5
  <2>3. g[n] \in Seq(V) /\ Keeps(g[n], names, kept, n)
    BY <2>1, <2>2, KeepsMore
  <2> QED
    BY <2>3
<1>6. top \in S
  <2> HIDE DEF S, top
  <2>1. \A n \in 1..top : n - 1 \in S => n \in S
    BY <1>5
  <2>2. \A n \in 0..top : n \in S
    BY <1>1, <1>4, <2>1, Upwards
  <2> QED
    BY <1>1, <2>2
<1> QED
  BY <1>2, <1>6

-----------------------------------------------------------------------------
(* Content that has a usable order. *)

Served == 1..Len(request.server)

\* What a usable order gives each plugin: a place after its masters', and after
\* those of the server's plugins before it.  Only what Index admits has one.
Rank(r) ==
    /\ WithinLimits
    /\ Distinct /\ Present
    /\ \A i \in Positions : \A k \in DOMAIN Deps(i) : r[Deps(i)[k]] < r[i]
    /\ \A i, j \in Served : i < j => r[i] < r[j]

\* The server's plugins are the first of the content.
LEMMA ServedType ==
    ASSUME request \in Request
    PROVE  /\ request.server \in Seq(Names) /\ Len(request.server) \in Nat
           /\ Served \subseteq Positions
           /\ \A i \in Served : Content[i] = request.server[i]
           /\ {request.server[i] : i \in DOMAIN request.server} = {Content[i] : i \in Served}
<1>1. request.server \in Seq(Names) /\ request.local \in Seq(Names)
  BY DEF Request
<1>2. /\ DOMAIN request.server = Served /\ Len(request.server) \in Nat
      /\ Len(request.local) \in Nat
  BY <1>1 DEF Served
<1>3. Len(Content) = Len(request.server) + Len(request.local)
  BY <1>1 DEF Content
<1>4. \A i \in Served : Content[i] = request.server[i]
  <2> DEFINE a == Len(request.server)
             b == Len(request.local)
  <2>1. \A i \in 1..(a + b) :
           Content[i] = IF i <= a THEN request.server[i] ELSE request.local[i - a]
    BY <1>1, ConcatProperties DEF Content
  <2>2. a \in Nat /\ b \in Nat /\ Served = 1..a
    BY <1>2 DEF Served
  <2> HIDE DEF a, b
  <2> QED
    BY <2>1, <2>2
<1>5. Served \subseteq Positions
  <2> DEFINE a == Len(request.server)
             b == Len(request.local)
  <2>1. a \in Nat /\ b \in Nat /\ Len(Content) = a + b /\ Served = 1..a
    BY <1>2, <1>3 DEF Served
  <2> HIDE DEF a, b
  <2> QED
    BY <2>1 DEF Positions
<1> QED
  BY <1>1, <1>2, <1>4, <1>5

\* A list without repetitions that is as long as the content has every position.
LEMMA EveryPosition ==
    ASSUME request \in Request, NEW f \in [Positions -> Positions],
           \A i, j \in Positions : f[i] = f[j] => i = j
    PROVE  \A p \in Positions : \E i \in Positions : f[i] = p
<1> SUFFICES ASSUME NEW p \in Positions, \A i \in Positions : f[i] # p PROVE FALSE
  OBVIOUS
<1> DEFINE n == Len(Content)
<1>1. n \in Nat /\ Positions = 1..n
  BY ContentType DEF Positions
<1>2. IsFiniteSet(Positions) /\ Cardinality(Positions) \in Nat
  BY <1>1, FS_Interval, FS_CardinalityType
<1>3. /\ IsFiniteSet(Positions \ {p})
      /\ Cardinality(Positions \ {p}) = Cardinality(Positions) - 1
  BY <1>2, FS_RemoveElement
<1>4. Cardinality(Positions \ {p}) < Cardinality(Positions)
  BY <1>2, <1>3
<1>5. f \in [Positions -> Positions \ {p}]
  OBVIOUS
<1>6. \E i, j \in Positions : i # j /\ f[i] = f[j]
  BY <1>2, <1>3, <1>4, <1>5, FS_PigeonHole
<1> QED
  BY <1>6

\* Content with a usable order is distinct and complete, and the order ranks it.
LEMMA UsableRanks ==
    ASSUME request \in Request, WithinLimits, NEW f \in [Positions -> Positions],
           Usable([i \in Positions |-> Content[f[i]]])
    PROVE  \E r \in [Positions -> Positions] : Rank(r)
<1> DEFINE names == [i \in Positions |-> Content[f[i]]]
           n == Len(Content)
<1>1. /\ n \in Nat /\ Positions = 1..n /\ \A i \in Positions : Content[i] \in Names
  BY ContentType DEF Positions
<1>2. names \in Seq(Names) /\ Len(names) = n /\ \A i \in Positions : names[i] = Content[f[i]]
  BY <1>1
<1>3. /\ \A i \in Positions : \E j \in Positions : names[j] = Content[i]
      /\ \A i, j \in Positions : names[i] = names[j] => i = j
      /\ \A b \in Positions :
            /\ Readable(names[b])
            /\ \A k \in DOMAIN Header(names[b]) :
                  \E a \in Positions : a < b /\ names[a] = Header(names[b])[k]
      /\ Filtered(names) = request.server
  BY DEF Usable
<1> HIDE DEF names
<1>4. \A p \in Positions : \E i \in Positions : f[i] = p
  <2>1. \A i, j \in Positions : f[i] = f[j] => i = j
    BY <1>2, <1>3
  <2> QED
    BY <2>1, EveryPosition
<1>5. Distinct
  <2> SUFFICES ASSUME NEW i \in Positions, NEW j \in Positions, Content[i] = Content[j]
               PROVE  i = j
    BY DEF Distinct
  <2>1. PICK a \in Positions : f[a] = i
    BY <1>4
  <2>2. PICK b \in Positions : f[b] = j
    BY <1>4
  <2> QED
    BY <1>2, <1>3, <2>1, <2>2
<1>6. Present
  <2> SUFFICES ASSUME NEW i \in Positions
               PROVE  /\ Readable(Content[i])
                      /\ \A k \in DOMAIN Header(Content[i]) :
                            \E j \in Positions : Content[j] = Header(Content[i])[k]
    BY DEF Present
  <2>1. PICK b \in Positions : names[b] = Content[i]
    BY <1>3
  <2>2. \A a \in Positions : f[a] \in Positions /\ names[a] = Content[f[a]]
    BY <1>2
  <2>3. Header(names[b]) = Header(Content[i])
    BY <2>1
  <2>4. \A k \in DOMAIN Header(names[b]) : \E a \in Positions : names[a] = Header(names[b])[k]
    BY <1>3
  <2>5. \A k \in DOMAIN Header(Content[i]) :
           \E a \in Positions : Content[f[a]] = Header(Content[i])[k] /\ f[a] \in Positions
    BY <2>2, <2>3, <2>4
  <2>6. Readable(Content[i])
    BY <1>3, <2>1
  <2> QED
    BY <2>5, <2>6
<1> DEFINE r == [p \in Positions |-> CHOOSE i \in Positions : f[i] = p]
<1>7. r \in [Positions -> Positions] /\ \A p \in Positions : r[p] \in Positions /\ f[r[p]] = p
  BY <1>4
<1> HIDE DEF r
<1>8. \A a, p \in Positions : names[a] = Content[p] => r[p] = a
  <2> SUFFICES ASSUME NEW a \in Positions, NEW p \in Positions, names[a] = Content[p]
               PROVE  r[p] = a
    OBVIOUS
  <2>1. r[p] \in Positions /\ names[r[p]] = Content[p]
    BY <1>2, <1>7
  <2>2. \A i, j \in Positions : names[i] = names[j] => i = j
    BY <1>3
  <2> QED
    BY <2>1, <2>2
<1>9. ASSUME NEW i \in Positions, NEW k \in DOMAIN Deps(i)
      PROVE  r[Deps(i)[k]] < r[i]
  <2>1. /\ k \in DOMAIN Header(Content[i]) /\ Deps(i)[k] \in Positions
        /\ Content[Deps(i)[k]] = Header(Content[i])[k]
    BY <1>6, DepsType
  <2>2. r[i] \in Positions /\ names[r[i]] = Content[i]
    BY <1>2, <1>7
  <2>3. PICK a \in Positions : a < r[i] /\ names[a] = Header(Content[i])[k]
    <3>1. Header(names[r[i]]) = Header(Content[i])
      BY <2>2
    <3>2. \A l \in DOMAIN Header(names[r[i]]) :
             \E a \in Positions : a < r[i] /\ names[a] = Header(names[r[i]])[l]
      BY <1>3, <2>2
    <3> QED
      BY <2>1, <3>1, <3>2
  <2>4. r[Deps(i)[k]] = a
    BY <1>8, <2>1, <2>3
  <2> QED
    BY <2>3, <2>4
<1>10. ASSUME NEW i \in Served, NEW j \in Served, i < j
       PROVE  r[i] < r[j]
  <2> DEFINE kept == {request.server[k] : k \in DOMAIN request.server}
  <2>1. Keeps(request.server, names, kept, n)
    BY <1>2, <1>3, RestrictedKeeps DEF Filtered
  <2>2. PICK spot \in [Served -> Positions] :
           /\ \A k \in Served : request.server[k] = names[spot[k]]
           /\ \A k, l \in Served : k < l => spot[k] < spot[l]
    BY <1>1, <2>1 DEF Keeps, KeepsAt, Served
  <2>3. \A k \in Served : k \in Positions /\ spot[k] \in Positions /\ names[spot[k]] = Content[k]
    BY <2>2, ServedType
  <2>4. r[i] = spot[i] /\ r[j] = spot[j]
    BY <1>8, <2>3
  <2> QED
    BY <1>10, <2>2, <2>4
<1>11. Rank(r)
  BY <1>5, <1>6, <1>9, <1>10 DEF Rank
<1> QED
  BY <1>7, <1>11

\* An increasing list of m numbers has all of 1..n.
Fills(g, m, n) ==
    /\ g \in [1..m -> 1..n]
    /\ \A k, l \in 1..m : k < l => g[k] < g[l]
    /\ \A i \in 1..n : \E k \in 1..m : g[k] = i

\* Such a list is 1..n itself.
LEMMA Increasing ==
    ASSUME NEW m \in Nat, NEW n \in Nat, NEW g, Fills(g, m, n)
    PROVE  m = n /\ \A k \in 1..m : g[k] = k
<1> USE DEF Fills
<1> DEFINE S == {k \in 0..m : \A j \in 1..k : g[j] = j}
<1>1. 0 \in S
  OBVIOUS
<1>2. ASSUME NEW k \in 1..m, k - 1 \in S PROVE k \in S
  <2>1. \A j \in 1..(k - 1) : g[j] = j
    BY <1>2
  <2>2. g[k] \in 1..n /\ g[k] >= k
    <3>1. CASE k = 1
      BY <3>1
    <3>2. CASE k # 1
      <4>1. k - 1 \in 1..m /\ k - 1 \in 1..(k - 1) /\ k - 1 < k
        BY <3>2
      <4>2. g[k - 1] < g[k] /\ g[k - 1] = k - 1
        BY <2>1, <4>1
      <4> QED
        BY <4>2
    <3> QED
      BY <3>1, <3>2
  <2>3. k \in 1..n
    BY <2>2
  <2>4. PICK l \in 1..m : g[l] = k
    BY <2>3
  <2>5. ~(l < k)
    <3>1. l < k => l \in 1..(k - 1)
      OBVIOUS
    <3> QED
      BY <2>1, <2>4, <3>1
  <2>6. ~(k < l)
    <3>1. k < l => g[k] < g[l]
      OBVIOUS
    <3> QED
      BY <2>2, <2>4, <3>1
  <2>7. g[k] = k
    BY <2>4, <2>5, <2>6
  <2>8. \A j \in 1..k : j = k \/ j \in 1..(k - 1)
    OBVIOUS
  <2> QED
    BY <2>1, <2>7, <2>8
<1>3. m \in S
  <2> HIDE DEF S
  <2>1. \A k \in 1..m : k - 1 \in S => k \in S
    BY <1>2
  <2>2. \A k \in 0..m : k \in S
    BY <1>1, <2>1, Upwards
  <2> QED
    BY <2>2
<1>4. \A k \in 1..m : g[k] = k
  BY <1>3
<1>5. m <= n
  <2>1. m # 0 => m \in 1..m
    OBVIOUS
  <2>2. m # 0 => g[m] = m /\ g[m] \in 1..n
    BY <1>4, <2>1
  <2> QED
    BY <2>2
<1>6. n <= m
  <2>1. n # 0 => n \in 1..n
    OBVIOUS
  <2>2. n # 0 => \E k \in 1..m : g[k] = n
    BY <2>1
  <2> QED
    BY <1>4, <2>2
<1> QED
  BY <1>4, <1>5, <1>6

\* The server's plugins are placed in the server's order.
ServerFirst ==
    /\ \A i, j \in Served : i < j /\ color[j] = 2 => color[i] = 2
    /\ \A a, b \in DOMAIN order :
          a < b /\ order[a] \in Served /\ order[b] \in Served => order[a] < order[b]

\* A finished walk that keeps the server's order passes the comparison.
LEMMA PlacedInServerOrder ==
    ASSUME OrderTypeOK, Distinct, Walk, \A i \in Positions : color[i] = 2, ServerFirst
    PROVE  Filtered(Ordered) = request.server
<1> DEFINE n == Len(Content)
           kept == {request.server[k] : k \in DOMAIN request.server}
           s == Restricted(Ordered, kept)
           m == Len(s)
<1>1. /\ request \in Request /\ order \in Seq(Positions)
      /\ n \in Nat /\ Positions = 1..n /\ \A i \in Positions : Content[i] \in Names
  BY ContentType DEF OrderTypeOK, Positions
<1>2. DOMAIN order = Positions /\ \A b \in Positions : order[b] \in Positions
  BY <1>1, PlacedOnce
<1>3. /\ Ordered \in Seq(Names) /\ Len(Ordered) = n
      /\ \A b \in Positions : Ordered[b] = Content[order[b]]
  BY <1>1, <1>2 DEF Ordered
<1>4. /\ request.server \in Seq(Names) /\ Len(request.server) \in Nat
      /\ Served \subseteq Positions
      /\ \A i \in Served : Content[i] = request.server[i]
      /\ kept = {Content[i] : i \in Served}
  BY <1>1, ServedType
<1> HIDE DEF kept
<1>5. s \in Seq(Names) /\ Keeps(s, Ordered, kept, n)
  BY <1>3, RestrictedKeeps
<1> HIDE DEF s
<1>6. m \in Nat
  BY <1>5
<1>7. PICK spot \in [1..m -> Positions] :
        /\ \A k \in 1..m : s[k] = Ordered[spot[k]] /\ Ordered[spot[k]] \in kept
        /\ \A k, l \in 1..m : k < l => spot[k] < spot[l]
        /\ \A i \in Positions : Ordered[i] \in kept => \E k \in 1..m : spot[k] = i
  BY <1>1, <1>5 DEF Keeps, KeepsAt
<1>8. ASSUME NEW b \in Positions
      PROVE  Ordered[b] \in kept <=> order[b] \in Served
  <2>1. Ordered[b] = Content[order[b]] /\ order[b] \in Positions
    BY <1>2, <1>3
  <2>2. Content[order[b]] \in kept => order[b] \in Served
    BY <1>4, <2>1 DEF Distinct
  <2> QED
    BY <1>4, <2>1, <2>2
<1> DEFINE g == [k \in 1..m |-> order[spot[k]]]
<1>9. \A k \in 1..m : g[k] = order[spot[k]] /\ spot[k] \in Positions /\ g[k] \in Served
  BY <1>7, <1>8
<1>10. g \in [1..m -> 1..Len(request.server)]
  BY <1>9 DEF Served
<1> HIDE DEF g
<1>11. ASSUME NEW k \in 1..m, NEW l \in 1..m, k < l
       PROVE  g[k] < g[l]
  BY <1>2, <1>7, <1>9, <1>11 DEF ServerFirst
<1>12. ASSUME NEW i \in 1..Len(request.server)
       PROVE  \E k \in 1..m : g[k] = i
  <2>1. i \in Served /\ i \in Positions
    BY <1>4 DEF Served
  <2>2. PICK b \in Positions : order[b] = i
    BY <1>2, <2>1 DEF Walk
  <2>3. PICK k \in 1..m : spot[k] = b
    BY <1>7, <1>8, <2>1, <2>2
  <2> QED
    BY <1>9, <2>2, <2>3
<1>13. m = Len(request.server) /\ \A k \in 1..m : g[k] = k
  <2> DEFINE top == Len(request.server)
  <2>1. top \in Nat
    BY <1>4
  <2>2. \A i \in 1..top : \E k \in 1..m : g[k] = i
    BY <1>12
  <2> HIDE DEF top, m
  <2>3. g \in [1..m -> 1..top]
    BY <1>10 DEF top
  <2>4. m \in Nat /\ \A k, l \in 1..m : k < l => g[k] < g[l]
    BY <1>6, <1>11
  <2>5. Fills(g, m, top)
    BY <2>2, <2>3, <2>4 DEF Fills
  <2>6. m = top /\ \A k \in 1..m : g[k] = k
    BY <2>1, <2>4, <2>5, Increasing
  <2> QED
    BY <2>6 DEF top
<1>14. \A k \in 1..m : s[k] = request.server[k]
  <2> SUFFICES ASSUME NEW k \in 1..m PROVE s[k] = request.server[k]
    OBVIOUS
  <2>1. s[k] = Content[order[spot[k]]] /\ order[spot[k]] = k
    BY <1>3, <1>7, <1>9, <1>13
  <2>2. k \in Served
    BY <1>13 DEF Served
  <2> QED
    BY <1>4, <2>1, <2>2
<1>15. s = request.server
  BY <1>4, <1>5, <1>13, <1>14
<1> QED
  BY <1>15 DEF Filtered, s, kept

-----------------------------------------------------------------------------
(* What is refused has no usable order. *)

\* With a usable order the walk goes from each plugin on its stack to one that has
\* an earlier place.
Falling(r) == \A m, n \in DOMAIN stack : m < n => r[stack[n].at] < r[stack[m].at]

\* What is being visited is on the stack, and what is before the plugin that the outer
\* loop is at is placed.
Traced ==
    /\ \A i \in Positions : color[i] = 1 => \E n \in DOMAIN stack : stack[n].at = i
    /\ stack # <<>> => \A j \in Positions : j < stack[1].at => color[j] = 2

Fair(r) == Rank(r) => Falling(r) /\ ServerFirst /\ verdict # "refused"

Exact == Inv /\ Traced /\ \A r \in [Positions -> Positions] : Fair(r)

\* The ranks depend on the request alone.
LEMMA SameRank ==
    ASSUME request' = request, NEW r
    PROVE  Rank(r)' = Rank(r) /\ Positions' = Positions /\ Served' = Served
<1>1. /\ Positions' = Positions /\ Served' = Served
      /\ WithinLimits' = WithinLimits /\ Distinct' = Distinct /\ Present' = Present
  BY SameRequest DEF Served
<1>2. \A i : Deps(i)' = Deps(i)
  BY SameRequest
<1>3. (\A i \in Positions : \A k \in DOMAIN Deps(i) : r[Deps(i)[k]] < r[i])'
      = (\A i \in Positions : \A k \in DOMAIN Deps(i) : r[Deps(i)[k]] < r[i])
  BY <1>1, <1>2
<1> QED
  BY <1>1, <1>3 DEF Rank

\* Nothing is refused before it was looked at.
LEMMA InitExact == OrderInit => Exact
<1> SUFFICES ASSUME OrderInit PROVE Exact
  OBVIOUS
<1>1. Inv /\ request \in Request
  BY InitInv DEF Inv, OrderTypeOK
<1>2. Served \subseteq Positions
  BY <1>1, ServedType
<1>3. /\ verdict = "index" /\ stack = <<>> /\ order = <<>>
      /\ \A i \in Positions : color[i] = 0
  BY DEF OrderInit, Ready
<1>4. Traced
  BY <1>3 DEF Traced
<1>5. \A r : Falling(r)
  BY <1>3 DEF Falling
<1>6. ServerFirst
  BY <1>2, <1>3 DEF ServerFirst
<1> QED
  BY <1>1, <1>3, <1>4, <1>5, <1>6 DEF Exact, Fair

\* A call of visit(), by the outer loop or for a master.
LEMMA CallExact ==
    ASSUME Exact, verdict = "visit", NEW i \in Positions, color[i] = 0, Call(i),
           UNCHANGED <<request, verdict, order>>, Inv',
           stack = <<>> => \A j \in Positions : j < i => color[j] = 2,
           stack # <<>> => \E k \in DOMAIN Deps(Frame.at) : Deps(Frame.at)[k] = i
    PROVE  Exact'
<1> DEFINE n == Len(stack)
           frame == [at |-> i, dep |-> 1]
<1>1. /\ Inv /\ OrderTypeOK /\ request \in Request
      /\ color \in [Positions -> 0..2]
      /\ stack \in Seq([at : Positions, dep : Nat \ {0}])
  BY DEF Exact, Inv, OrderTypeOK
<1>2. color' = [color EXCEPT ![i] = 1] /\ stack' = Append(stack, frame)
  BY DEF Call
<1>3. \A j \in Positions : /\ color'[j] = 2 <=> color[j] = 2
                           /\ j # i => color'[j] = color[j]
  BY <1>1, <1>2
<1>4. /\ n \in Nat /\ DOMAIN stack = 1..n /\ DOMAIN stack' = 1..(n + 1)
      /\ stack'[n + 1].at = i
      /\ \A f \in 1..n : stack'[f] = stack[f] /\ stack[f].at \in Positions
      /\ \A f \in 1..(n + 1) : f = n + 1 \/ f \in 1..n
      /\ 1..n \subseteq 1..(n + 1) /\ n + 1 \in 1..(n + 1)
  <2>1. frame \in [at : Positions, dep : Nat \ {0}]
    OBVIOUS
  <2> QED
    BY <1>1, <1>2, <2>1, FrameType
<1>5. /\ n # 0 => stack # <<>> /\ n \in 1..n /\ 1 \in 1..n /\ Frame = stack[n]
      /\ n = 0 => stack = <<>>
  BY <1>1, <1>4 DEF Frame
<1> HIDE DEF n
<1>6. Traced'
  <2>1. ASSUME NEW j \in Positions, color'[j] = 1
        PROVE  \E f \in DOMAIN stack' : stack'[f].at = j
    <3>1. CASE j = i
      BY <1>4, <3>1
    <3>2. CASE j # i
      <4>1. PICK f \in 1..n : stack[f].at = j
        BY <1>3, <1>4, <2>1, <3>2 DEF Exact, Traced
      <4> QED
        BY <1>4, <4>1
    <3> QED
      BY <3>1, <3>2
  <2>2. ASSUME NEW j \in Positions, j < stack'[1].at
        PROVE  color'[j] = 2
    <3>1. CASE n = 0
      BY <1>3, <1>4, <1>5, <2>2, <3>1
    <3>2. CASE n # 0
      <4>1. stack'[1] = stack[1]
        BY <1>4, <1>5, <3>2
      <4> QED
        BY <1>3, <1>5, <2>2, <3>2, <4>1 DEF Exact, Traced
    <3> QED
      BY <3>1, <3>2
  <2> QED
    BY <2>1, <2>2, SameRequest DEF Traced
<1>7. ASSUME NEW r \in [Positions -> Positions], Rank(r)
      PROVE  Falling(r)' /\ ServerFirst'
  <2>1. Falling(r) /\ ServerFirst
    BY <1>7 DEF Exact, Fair
  <2>2. \A p \in Positions : r[p] \in Nat
    BY DEF Positions
  <2>3. ASSUME NEW f \in 1..(n + 1), NEW h \in 1..(n + 1), f < h
        PROVE  r[stack'[h].at] < r[stack'[f].at]
    <3>1. f \in 1..n
      BY <1>4, <2>3
    <3>2. CASE h \in 1..n
      BY <1>4, <2>1, <2>3, <3>1, <3>2 DEF Falling
    <3>3. CASE h = n + 1
      <4>1. n # 0 /\ Frame = stack[n] /\ n \in 1..n
        BY <1>4, <1>5, <3>1
      <4>2. PICK k \in DOMAIN Deps(Frame.at) : Deps(Frame.at)[k] = i
        BY <1>5, <4>1
      <4>3. Frame.at \in Positions
        BY <1>4, <4>1
      <4>4. r[i] < r[stack[n].at]
        BY <1>7, <4>1, <4>2, <4>3 DEF Rank
      <4>5. f # n => r[stack[n].at] < r[stack[f].at]
        BY <1>4, <2>1, <3>1, <4>1 DEF Falling
      <4>6. stack[n].at \in Positions /\ stack[f].at \in Positions
        BY <1>4, <3>1, <4>1
      <4>7. r[i] < r[stack[f].at]
        <5>1. r[i] \in Nat /\ r[stack[n].at] \in Nat /\ r[stack[f].at] \in Nat
          BY <2>2, <4>6
        <5>2. f = n => r[stack[f].at] = r[stack[n].at]
          OBVIOUS
        <5> QED
          BY <4>4, <4>5, <5>1, <5>2
      <4> QED
        BY <1>4, <3>1, <3>3, <4>7
    <3> QED
      BY <1>4, <3>2, <3>3
  <2>4. Falling(r)'
    BY <1>4, <2>3 DEF Falling
  <2>5. Served \subseteq Positions /\ Served' = Served
    BY <1>1, ServedType, SameRank
  <2>6. \A a, b \in Served : a < b /\ color'[b] = 2 => color'[a] = 2
    BY <1>3, <2>1, <2>5 DEF ServerFirst
  <2> QED
    BY <2>1, <2>4, <2>5, <2>6 DEF ServerFirst
<1> QED
  BY <1>6, <1>7, SameRank DEF Exact, Fair

\* Going past a master leaves the calls at their plugins.
LEMMA PassExact ==
    ASSUME Exact, Pass, Inv'
    PROVE  Exact'
<1>1. /\ Visiting /\ MastersLeft
      /\ stack' = [stack EXCEPT ![Len(stack)] = [at |-> Frame.at, dep |-> Frame.dep + 1]]
      /\ request' = request /\ verdict' = verdict /\ color' = color /\ order' = order
  BY DEF Pass
<1>2. Inv /\ request \in Request
  BY DEF Exact, Inv, OrderTypeOK
<1>3. Len(stack) \in DOMAIN stack /\ Frame = stack[Len(stack)] /\ DOMAIN stack = 1..Len(stack)
      /\ Len(stack) \in Nat
  BY <1>1, <1>2, TopOfStack
<1>4. DOMAIN stack' = DOMAIN stack /\ \A f \in DOMAIN stack : stack'[f].at = stack[f].at
  BY <1>1, <1>3
<1>5. stack # <<>> /\ 1 \in DOMAIN stack
  BY <1>1, <1>3 DEF Visiting
<1>6. Traced'
  BY <1>1, <1>4, <1>5, SameRequest DEF Exact, Traced
<1>7. \A r : Falling(r)' = Falling(r)
  BY <1>4 DEF Falling
<1>8. ServerFirst' = ServerFirst
  BY <1>1, SameRank DEF ServerFirst
<1> QED
  BY <1>1, <1>6, <1>7, <1>8, SameRank DEF Exact, Fair

\* A plugin whose visit ends is of the server only if all of the server's before it
\* are placed: below the top of the stack is only what has a later place.
LEMMA PlaceExact ==
    ASSUME Exact, Place, Inv'
    PROVE  Exact'
<1> DEFINE n == Len(stack)
           m == Len(order)
           p == Frame.at
<1>1. /\ Visiting
      /\ color' = [color EXCEPT ![p] = 2]
      /\ order' = Append(order, p)
      /\ stack' = SubSeq(stack, 1, n - 1)
      /\ request' = request /\ verdict' = verdict
  BY DEF Place
<1>2. Inv /\ OrderTypeOK /\ Walk /\ request \in Request /\ color \in [Positions -> 0..2]
      /\ stack # <<>> /\ stack \in Seq([at : Positions, dep : Nat \ {0}])
      /\ order \in Seq(Positions)
  BY <1>1 DEF Exact, Inv, OrderTypeOK, Visiting
<1>3. /\ n \in Nat \ {0} /\ n \in DOMAIN stack /\ DOMAIN stack = 1..n
      /\ p = stack[n].at /\ p \in Positions
      /\ \A f \in 1..n : stack[f].at \in Positions
  <2>1. /\ n \in Nat /\ n \in DOMAIN stack /\ DOMAIN stack = 1..n
        /\ Frame = stack[n] /\ p \in Positions
    BY <1>1, <1>2, TopOfStack
  <2>2. \A f \in 1..n : stack[f].at \in Positions
    BY <1>2, FrameType
  <2>3. n \in 1..n => n \in Nat \ {0}
    BY <2>1
  <2> QED
    BY <2>1, <2>2, <2>3
<1>4. /\ DOMAIN stack' = 1..(n - 1)
      /\ \A f \in 1..(n - 1) : stack'[f] = stack[f]
      /\ n = 1 => stack' = <<>>
  <2> DEFINE frames == [at : Positions, dep : Nat \ {0}]
  <2>1. stack \in Seq(frames)
    BY <1>2
  <2> HIDE DEF frames
  <2>2. \A i \in 1..(n - 1) : stack[i] \in frames
    BY <1>3, <2>1
  <2>3. /\ stack' \in Seq(frames) /\ DOMAIN stack' = 1..(n - 1)
        /\ \A f \in 1..(n - 1) : stack'[f] = stack[f]
    BY <1>1, <1>3, <2>1, <2>2, SubSeqProperties
  <2>4. n = 1 => Len(stack') = 0
    BY <2>3
  <2> QED
    BY <2>3, <2>4, EmptySeq
<1>5. /\ color[p] = 1 /\ color'[p] = 2
      /\ \A j \in Positions : j # p => color'[j] = color[j]
  BY <1>1, <1>2, <1>3 DEF Walk
<1>6. /\ m \in Nat /\ DOMAIN order = 1..m /\ DOMAIN order' = 1..(m + 1)
      /\ order'[m + 1] = p
      /\ \A b \in 1..m : order'[b] = order[b] /\ order[b] \in Positions /\ color[order[b]] = 2
      /\ \A b \in 1..(m + 1) : b = m + 1 \/ b \in 1..m
  BY <1>1, <1>2, <1>3 DEF Walk
<1> HIDE DEF n, m, p
<1>7. Traced'
  <2>1. ASSUME NEW j \in Positions, color'[j] = 1
        PROVE  \E f \in DOMAIN stack' : stack'[f].at = j
    <3>1. j # p /\ color[j] = 1
      BY <1>5, <2>1
    <3>2. PICK f \in 1..n : stack[f].at = j
      BY <1>3, <3>1 DEF Exact, Traced
    <3>3. f \in 1..(n - 1)
      <4>1. f # n
        BY <1>3, <3>1, <3>2
      <4> QED
        BY <1>3, <4>1
    <3> QED
      BY <1>4, <3>2, <3>3
  <2>2. ASSUME stack' # <<>>, NEW j \in Positions, j < stack'[1].at
        PROVE  color'[j] = 2
    <3>1. 1 \in 1..(n - 1)
      BY <1>3, <1>4, <2>2
    <3>2. stack'[1] = stack[1]
      BY <1>4, <3>1
    <3>3. color[j] = 2
      BY <1>2, <2>2, <3>2 DEF Exact, Traced
    <3> QED
      BY <1>5, <3>3
  <2> QED
    BY <1>1, <2>1, <2>2, SameRequest DEF Traced
<1>8. ASSUME NEW r \in [Positions -> Positions], Rank(r)
      PROVE  Falling(r)' /\ ServerFirst'
  <2>1. Falling(r) /\ ServerFirst
    BY <1>8 DEF Exact, Fair
  <2>2. /\ Served \subseteq Positions /\ Served' = Served /\ Positions \subseteq Nat
        /\ \A j \in Positions : j \in Served => \A i \in Positions : i < j => i \in Served
    <3>1. Served \subseteq Positions /\ Served' = Served
      BY <1>1, <1>2, ServedType, SameRank
    <3>2. Len(request.server) \in Nat
      BY <1>2, ServedType
    <3> QED
      BY <3>1, <3>2 DEF Served, Positions
  <2>3. Falling(r)'
    <3>1. \A f \in 1..(n - 1) : f \in 1..n
      BY <1>3
    <3> QED
      BY <1>3, <1>4, <2>1, <3>1 DEF Falling
  <2>4. ASSUME p \in Served, NEW i \in Served, i < p
        PROVE  color[i] = 2
    <3> DEFINE root == stack[1].at
    <3>1. root \in Positions /\ \A j \in Positions : j < root => color[j] = 2
      BY <1>2, <1>3 DEF Exact, Traced
    <3>9. root \in Nat /\ p \in Nat
      BY <1>3, <2>2, <3>1
    <3>2. ~(p < root)
      BY <1>3, <1>5, <3>1
    <3>3. ~(root < p)
      <4> SUFFICES ASSUME root < p PROVE FALSE
        OBVIOUS
      <4>1. root \in Served
        BY <1>3, <2>2, <2>4, <3>1
      <4>2. r[root] < r[p]
        BY <1>8, <2>4, <4>1 DEF Rank
      <4>3. 1 < n
        <5>1. n # 1
          <6>1. n = 1 => p = root
            BY <1>3
          <6> QED
            BY <3>9, <6>1
        <5> QED
          BY <1>3, <5>1
      <4>4. r[p] < r[root]
        BY <1>3, <2>1, <4>3 DEF Falling
      <4>5. r[p] \in Nat /\ r[root] \in Nat
        BY <1>3, <2>2, <3>1
      <4> QED
        BY <4>2, <4>4, <4>5
    <3>4. p = root
      BY <3>2, <3>3, <3>9
    <3> QED
      BY <2>2, <2>4, <3>1, <3>4
  <2>5. ASSUME NEW i \in Served, NEW j \in Served, i < j, color'[j] = 2
        PROVE  color'[i] = 2
    <3>1. CASE j = p
      BY <1>5, <2>2, <2>4, <2>5, <3>1
    <3>2. CASE j # p
      BY <1>5, <2>1, <2>2, <2>5, <3>2 DEF ServerFirst
    <3> QED
      BY <3>1, <3>2
  <2>6. ASSUME NEW a \in 1..(m + 1), NEW b \in 1..(m + 1), a < b,
               order'[a] \in Served, order'[b] \in Served
        PROVE  order'[a] < order'[b]
    <3>1. a \in 1..m
      BY <1>6, <2>6
    <3>2. CASE b \in 1..m
      BY <1>6, <2>1, <2>6, <3>1, <3>2 DEF ServerFirst
    <3>3. CASE b = m + 1
      <4>1. order'[b] = p /\ order'[a] = order[a] /\ color[order[a]] = 2 /\ order[a] \in Positions
        BY <1>6, <3>1, <3>3
      <4>2. order[a] # p
        BY <1>5, <4>1
      <4>3. ~(p < order[a])
        BY <1>5, <2>1, <2>6, <4>1 DEF ServerFirst
      <4>4. p \in Nat /\ order[a] \in Nat
        BY <1>3, <2>2, <4>1
      <4>5. order[a] < p
        BY <4>2, <4>3, <4>4
      <4> QED
        BY <4>1, <4>5
    <3> QED
      BY <1>6, <3>2, <3>3
  <2>7. ServerFirst'
    BY <1>6, <2>2, <2>5, <2>6 DEF ServerFirst
  <2> QED
    BY <2>3, <2>7
<1> QED
  BY <1>1, <1>7, <1>8, SameRank DEF Exact, Fair, Visiting

\* A master that is being visited would have an earlier place than itself.
LEMMA CycleExact ==
    ASSUME Exact, Cycle, Inv'
    PROVE  Exact'
<1>1. /\ Visiting /\ MastersLeft /\ color[Master] = 1
      /\ request' = request /\ color' = color /\ stack' = stack /\ order' = order
  BY DEF Cycle
<1>2. Inv
  BY DEF Exact
<1>3. /\ Len(stack) \in Nat /\ Len(stack) \in DOMAIN stack /\ DOMAIN stack = 1..Len(stack)
      /\ Frame = stack[Len(stack)] /\ Frame.at \in Positions
      /\ Frame.dep \in DOMAIN Deps(Frame.at) /\ Master \in Positions
  BY <1>1, <1>2, TopOfStack
<1>4. PICK f \in DOMAIN stack : stack[f].at = Master
  BY <1>1, <1>3 DEF Exact, Traced
<1>5. ASSUME NEW r \in [Positions -> Positions], Rank(r)
      PROVE  FALSE
  <2>1. r[Master] < r[Frame.at]
    BY <1>3, <1>5 DEF Rank, Master
  <2>2. Falling(r)
    BY <1>5 DEF Exact, Fair
  <2>3. f # Len(stack) => r[Frame.at] < r[Master]
    BY <1>3, <1>4, <2>2 DEF Falling
  <2>4. f = Len(stack) => Master = Frame.at
    BY <1>3, <1>4
  <2>5. r[Master] \in Nat /\ r[Frame.at] \in Nat
    BY <1>3 DEF Positions
  <2> QED
    BY <2>1, <2>3, <2>4, <2>5
<1>6. Traced'
  BY <1>1, SameRequest DEF Exact, Traced
<1> QED
  BY <1>1, <1>5, <1>6, SameRank DEF Exact, Fair

\* Every step keeps it.
LEMMA NextExact == Exact /\ [OrderNext]_orderVars => Exact'
<1> SUFFICES ASSUME Exact, [OrderNext]_orderVars PROVE Exact'
  OBVIOUS
<1>1. Inv /\ Inv'
  BY NextInv DEF Exact
<1>2. ASSUME UNCHANGED <<request, color, stack, order>>,
             \A r \in [Positions -> Positions] : Rank(r) /\ verdict # "refused" => verdict' # "refused"
      PROVE  Exact'
  <2>1. Traced'
    BY <1>2, SameRequest DEF Exact, Traced
  <2>2. ServerFirst' = ServerFirst
    BY <1>2, SameRank DEF ServerFirst
  <2>3. \A r : Falling(r)' = Falling(r)
    BY <1>2 DEF Falling
  <2> QED
    BY <1>1, <1>2, <2>1, <2>2, <2>3, SameRank DEF Exact, Fair
<1>3. CASE Index
  BY <1>2, <1>3 DEF Index, Rank
<1>4. CASE Compare
  <2>1. /\ verdict = "visit" /\ \A i \in Positions : color[i] = 2
        /\ verdict' = IF Filtered(Ordered) = request.server THEN "ordered" ELSE "refused"
    BY <1>4 DEF Compare
  <2>2. OrderTypeOK /\ Distinct /\ Walk
    BY <1>1, <2>1 DEF Inv
  <2>3. ASSUME NEW r \in [Positions -> Positions], Rank(r) PROVE verdict' # "refused"
    <3>1. ServerFirst
      BY <2>3 DEF Exact, Fair
    <3> QED
      BY <2>1, <2>2, <3>1, PlacedInServerOrder
  <2> QED
    BY <1>2, <1>4, <2>3 DEF Compare
<1>5. CASE Finished \/ UNCHANGED orderVars
  BY <1>2, <1>5 DEF Finished, orderVars
<1>6. CASE Descend
  <2>1. /\ verdict = "visit" /\ stack # <<>> /\ color[Master] = 0 /\ Call(Master)
        /\ UNCHANGED <<request, verdict, order>> /\ Visiting /\ MastersLeft
    BY <1>6 DEF Descend, Visiting
  <2>2. Master \in Positions /\ Frame.dep \in DOMAIN Deps(Frame.at)
    BY <1>1, <2>1, TopOfStack
  <2>3. \E k \in DOMAIN Deps(Frame.at) : Deps(Frame.at)[k] = Master
    BY <2>2 DEF Master
  <2> QED
    BY <1>1, <2>1, <2>2, <2>3, CallExact
<1>7. CASE Pass
  BY <1>1, <1>7, PassExact
<1>8. CASE Place
  BY <1>1, <1>8, PlaceExact
<1>9. CASE Cycle
  BY <1>1, <1>9, CycleExact
<1>10. ASSUME NEW i \in Positions, Start(i) PROVE Exact'
  <2>1. /\ verdict = "visit" /\ stack = <<>> /\ color[i] = 0 /\ Call(i)
        /\ \A j \in Positions : j < i => color[j] # 0
        /\ UNCHANGED <<request, verdict, order>>
    BY <1>10 DEF Start
  <2>2. color \in [Positions -> 0..2] /\ \A j \in Positions : color[j] # 1
    BY <1>1, <2>1 DEF Exact, Traced, Inv, OrderTypeOK
  <2>3. \A j \in Positions : j < i => color[j] = 2
    BY <2>1, <2>2
  <2> QED
    BY <1>1, <2>1, <2>3, CallExact
<1> QED
  BY <1>3, <1>4, <1>5, <1>6, <1>7, <1>8, <1>9, <1>10 DEF OrderNext

\* The load order is exact: what is accepted is within loadOrder's limits and can be
\* used, and nothing within the limits is refused that has a usable order; absent, broken,
\* repeated and shadowed plugins and cyclic masters included
\* (native_backend.cpp:711-753, 785-792).
THEOREM LoadOrderIsExact == OrderSpec => []OrderIsExact
<1>1. OrderSpec => []Exact
  BY InitExact, NextExact, PTL DEF OrderSpec
<1>2. Exact => OrderIsExact
  <2> SUFFICES ASSUME Exact PROVE OrderIsExact
    OBVIOUS
  <2>1. AcceptedIsUsable /\ request \in Request
    BY DEF Exact, Inv, OrderTypeOK
  <2>2. ASSUME verdict = "refused", WithinLimits, NEW f \in [Positions -> Positions],
               Usable([i \in Positions |-> Content[f[i]]])
        PROVE  FALSE
    <3>1. PICK r \in [Positions -> Positions] : Rank(r)
      BY <2>1, <2>2, UsableRanks
    <3> QED
      BY <2>2, <3>1 DEF Exact, Fair
  <2> QED
    BY <2>1, <2>2 DEF OrderIsExact
<1> QED
  BY <1>1, <1>2, PTL

-----------------------------------------------------------------------------
(* Paths.                                                                   *)

\* A path is a sequence of at least one name.
LEMMA PathType ==
    /\ \A p \in Paths : /\ p \in Seq(Parts) /\ Len(p) \in 1..MaxDepth /\ DOMAIN p = 1..Len(p)
                        /\ \A i \in 1..Len(p) : p[i] \in Parts
    /\ \A p \in Seq(Parts) : Len(p) \in 1..MaxDepth => p \in Paths
BY TreeAssumption DEF Paths

\* One path is above another when it has the same names as far as it goes.
LEMMA PrefixMeans ==
    ASSUME NEW p \in Seq(Parts), NEW q \in Seq(Parts)
    PROVE  IsPrefix(p, q) <=> Len(p) <= Len(q) /\ \A i \in 1..Len(p) : p[i] = q[i]
<1>1. Len(p) \in Nat /\ Len(q) \in Nat /\ DOMAIN p = 1..Len(p) /\ DOMAIN q = 1..Len(q)
  OBVIOUS
<1>2. ASSUME Len(p) <= Len(q)
      PROVE  SubSeq(p, 1, Len(p)) = SubSeq(q, 1, Len(p)) <=> \A i \in 1..Len(p) : p[i] = q[i]
  <2>1. /\ SubSeq(p, 1, Len(p)) = [i \in 1..Len(p) |-> p[i]]
        /\ SubSeq(q, 1, Len(p)) = [i \in 1..Len(p) |-> q[i]]
    BY <1>1, <1>2, SubSeqProperties
  <2> QED
    BY <2>1
<1> QED
  BY <1>2 DEF IsPrefix

\* A prefix and a parent, by the names that two paths have in common.
LEMMA StrictMeans ==
    ASSUME NEW p \in Paths, NEW q \in Paths
    PROVE  /\ IsPrefix(p, q) <=> Len(p) <= Len(q) /\ \A i \in 1..Len(p) : p[i] = q[i]
           /\ Parent(p, q) <=> Len(p) < Len(q) /\ \A i \in 1..Len(p) : p[i] = q[i]
           /\ IsPrefix(p, q) <=> p = q \/ Parent(p, q)
<1>1. p \in Seq(Parts) /\ q \in Seq(Parts)
  BY PathType
<1>2. IsPrefix(p, q) <=> Len(p) <= Len(q) /\ \A i \in 1..Len(p) : p[i] = q[i]
  BY <1>1, PrefixMeans
<1>3. IsPrefix(p, q) /\ Len(p) = Len(q) => p = q
  BY <1>1, <1>2
<1>4. Len(p) \in Nat /\ Len(q) \in Nat
  BY <1>1
<1> QED
  BY <1>2, <1>3, <1>4 DEF Parent, IsStrictPrefix

\* The folders above a path are a chain.
LEMMA PathOrder ==
    ASSUME NEW p \in Paths, NEW q \in Paths, NEW r \in Paths
    PROVE  /\ IsPrefix(p, p) /\ ~Parent(p, p)
           /\ IsPrefix(p, q) /\ IsPrefix(q, r) => IsPrefix(p, r)
           /\ Parent(p, q) /\ IsPrefix(q, r) => Parent(p, r)
           /\ IsPrefix(p, q) /\ Parent(q, r) => Parent(p, r)
           /\ IsPrefix(p, r) /\ IsPrefix(q, r) => IsPrefix(p, q) \/ IsPrefix(q, p)
           /\ ~(IsPrefix(p, q) /\ Parent(q, p))
<1>1. Len(p) \in Nat /\ Len(q) \in Nat /\ Len(r) \in Nat
  BY PathType
<1>2. IsPrefix(p, p) /\ ~Parent(p, p)
  BY StrictMeans
<1>3. IsPrefix(p, q) /\ IsPrefix(q, r) => IsPrefix(p, r)
  BY <1>1, StrictMeans
<1>4. /\ Parent(p, q) /\ IsPrefix(q, r) => Parent(p, r)
      /\ IsPrefix(p, q) /\ Parent(q, r) => Parent(p, r)
  BY <1>1, StrictMeans
<1>5. IsPrefix(p, r) /\ IsPrefix(q, r) => IsPrefix(p, q) \/ IsPrefix(q, p)
  BY <1>1, StrictMeans
<1>6. ~(IsPrefix(p, q) /\ Parent(q, p))
  BY <1>1, StrictMeans
<1> QED
  BY <1>2, <1>3, <1>4, <1>5, <1>6

\* The path m begins with to and goes on as e does after from.
Carries(m, e, from, to) ==
    /\ m \in Seq(Parts)
    /\ Len(m) = Len(to) + Len(e) - Len(from)
    /\ \A i \in 1..Len(to) : m[i] = to[i]
    /\ \A i \in 1..(Len(e) - Len(from)) : m[Len(to) + i] = e[Len(from) + i]

\* Where what is under one path is under another one.
LEMMA MovedMeans ==
    ASSUME NEW from \in Paths, NEW to \in Paths, NEW e \in Paths, IsPrefix(from, e)
    PROVE  Carries(Moved(e, from, to), e, from, to)
<1> DEFINE tail == SubSeq(e, Len(from) + 1, Len(e))
<1>1. /\ from \in Seq(Parts) /\ to \in Seq(Parts) /\ e \in Seq(Parts)
      /\ Len(from) \in Nat /\ Len(to) \in Nat /\ Len(e) \in Nat /\ Len(from) <= Len(e)
  BY PathType, StrictMeans
<1>2. /\ tail \in Seq(Parts) /\ Len(tail) = Len(e) - Len(from)
      /\ \A i \in 1..(Len(e) - Len(from)) : tail[i] = e[Len(from) + i]
  BY <1>1
<1> HIDE DEF tail
<1>3. /\ to \o tail \in Seq(Parts) /\ Len(to \o tail) = Len(to) + Len(tail)
      /\ \A i \in 1..(Len(to) + Len(tail)) :
            (to \o tail)[i] = IF i <= Len(to) THEN to[i] ELSE tail[i - Len(to)]
  BY <1>1, <1>2, ConcatProperties
<1> DEFINE m == to \o tail
<1> HIDE DEF m
<1>5. \A i \in 1..Len(to) : m[i] = to[i]
  BY <1>1, <1>2, <1>3 DEF m
<1>6. ASSUME NEW i \in 1..Len(tail) PROVE m[Len(to) + i] = tail[i]
  <2>1. Len(to) + i \in 1..(Len(to) + Len(tail)) /\ ~(Len(to) + i <= Len(to))
        /\ (Len(to) + i) - Len(to) = i
    BY <1>1, <1>2
  <2> QED
    BY <1>3, <2>1 DEF m
<1>4. Moved(e, from, to) = to \o tail
  BY DEF Moved, tail
<1> QED
  BY <1>2, <1>3, <1>4, <1>5, <1>6 DEF m, Carries

\* Moving there and back, and keeping the folders above as they were.
LEMMA MovedBack ==
    ASSUME NEW from \in Paths, NEW to \in Paths, NEW e \in Paths, IsPrefix(from, e),
           Moved(e, from, to) \in Paths
    PROVE  /\ IsPrefix(to, Moved(e, from, to))
           /\ Moved(Moved(e, from, to), to, from) = e
           /\ Moved(from, from, to) = to
<1> DEFINE m == Moved(e, from, to)
           b == Moved(m, to, from)
<1>1. /\ e \in Seq(Parts) /\ Len(from) \in Nat /\ Len(to) \in Nat /\ Len(e) \in Nat
      /\ Len(from) <= Len(e) /\ \A i \in 1..Len(from) : from[i] = e[i]
  BY PathType, StrictMeans
<1>2. /\ Len(m) = Len(to) + Len(e) - Len(from)
      /\ \A i \in 1..Len(to) : m[i] = to[i]
      /\ \A i \in 1..(Len(e) - Len(from)) : m[Len(to) + i] = e[Len(from) + i]
  <2>1. Carries(m, e, from, to)
    BY MovedMeans
  <2> QED
    BY <2>1 DEF Carries
<1> HIDE DEF m
<1>3. IsPrefix(to, m)
  BY <1>1, <1>2, StrictMeans DEF m
<1>4. /\ b \in Seq(Parts) /\ Len(b) = Len(from) + Len(m) - Len(to)
      /\ \A i \in 1..Len(from) : b[i] = from[i]
      /\ \A i \in 1..(Len(m) - Len(to)) : b[Len(from) + i] = m[Len(to) + i]
  <2>1. Carries(b, m, to, from)
    BY <1>3, MovedMeans DEF m
  <2> QED
    BY <2>1 DEF Carries
<1> HIDE DEF b
<1>5. Len(b) = Len(e)
  BY <1>1, <1>2, <1>4
<1>6. ASSUME NEW i \in 1..Len(e) PROVE b[i] = e[i]
  <2>1. CASE i <= Len(from)
    BY <1>1, <1>4, <2>1
  <2>2. CASE i > Len(from)
    <3> DEFINE j == i - Len(from)
    <3>1. j \in 1..(Len(e) - Len(from)) /\ j \in 1..(Len(m) - Len(to)) /\ i = Len(from) + j
      BY <1>1, <1>2, <2>2
    <3> HIDE DEF j
    <3>2. b[Len(from) + j] = m[Len(to) + j] /\ m[Len(to) + j] = e[Len(from) + j]
      BY <1>2, <1>4, <3>1
    <3> QED
      BY <3>1, <3>2
  <2> QED
    BY <1>1, <2>1, <2>2
<1>7. b = e
  BY <1>1, <1>4, <1>5, <1>6
<1>8. Moved(from, from, to) = to
  <2> DEFINE o == Moved(from, from, to)
  <2>1. o \in Seq(Parts) /\ Len(o) = Len(to) + Len(from) - Len(from) /\ \A i \in 1..Len(to) : o[i] = to[i]
    <3>1. IsPrefix(from, from)
      BY PathOrder
    <3>2. Carries(o, from, from, to)
      BY <3>1, MovedMeans
    <3> QED
      BY <3>2 DEF Carries
  <2> HIDE DEF o
  <2>2. to \in Seq(Parts) /\ Len(o) = Len(to)
    BY <1>1, <2>1, PathType
  <2>3. o = to
    BY <2>1, <2>2
  <2> QED
    BY <2>3 DEF o
<1> QED
  BY <1>3, <1>7, <1>8 DEF m, b

\* What is above stays above, and none of it is lost.
LEMMA MovedParent ==
    ASSUME NEW from \in Paths, NEW to \in Paths, NEW d \in Paths, NEW e \in Paths,
           IsPrefix(from, d), Parent(d, e), Moved(e, from, to) \in Paths
    PROVE  Moved(d, from, to) \in Paths /\ Parent(Moved(d, from, to), Moved(e, from, to))
<1> DEFINE m == Moved(e, from, to)
           n == Moved(d, from, to)
<1>1. /\ Len(from) \in Nat \ {0} /\ Len(to) \in Nat \ {0} /\ Len(d) \in Nat /\ Len(e) \in Nat
      /\ Len(from) <= Len(d) /\ Len(d) < Len(e)
      /\ \A i \in 1..Len(d) : d[i] = e[i]
      /\ IsPrefix(from, e) /\ MaxDepth \in Nat
  BY PathType, StrictMeans, PathOrder, TreeAssumption
<1>2. /\ Len(m) = Len(to) + Len(e) - Len(from)
      /\ \A i \in 1..Len(to) : m[i] = to[i]
      /\ \A i \in 1..(Len(e) - Len(from)) : m[Len(to) + i] = e[Len(from) + i]
  <2>1. Carries(m, e, from, to)
    BY <1>1, MovedMeans
  <2> QED
    BY <2>1 DEF Carries
<1>3. /\ n \in Seq(Parts) /\ Len(n) = Len(to) + Len(d) - Len(from)
      /\ \A i \in 1..Len(to) : n[i] = to[i]
      /\ \A i \in 1..(Len(d) - Len(from)) : n[Len(to) + i] = d[Len(from) + i]
  <2>1. Carries(n, d, from, to)
    BY MovedMeans
  <2> QED
    BY <2>1 DEF Carries
<1> HIDE DEF n
<1>4. m \in Paths /\ Len(m) \in 1..MaxDepth
  BY PathType
<1> HIDE DEF m
<1>5. n \in Paths
  <2>1. Len(n) \in 1..MaxDepth
    BY <1>1, <1>2, <1>3, <1>4
  <2> QED
    BY <1>3, <2>1, PathType
<1>6. ASSUME NEW i \in 1..Len(n) PROVE n[i] = m[i]
  <2>1. CASE i <= Len(to)
    BY <1>1, <1>2, <1>3, <2>1
  <2>2. CASE i > Len(to)
    <3> DEFINE j == i - Len(to)
    <3>1. /\ j \in 1..(Len(d) - Len(from)) /\ j \in 1..(Len(e) - Len(from))
          /\ Len(from) + j \in 1..Len(d) /\ i = Len(to) + j
      BY <1>1, <1>3, <2>2
    <3> HIDE DEF j
    <3>2. n[Len(to) + j] = d[Len(from) + j] /\ m[Len(to) + j] = e[Len(from) + j]
      BY <1>2, <1>3, <3>1
    <3> QED
      BY <1>1, <3>1, <3>2
  <2> QED
    BY <1>1, <1>3, <2>1, <2>2
<1>7. Parent(n, m)
  <2>1. Len(n) < Len(m)
    BY <1>1, <1>2, <1>3
  <2>2. \A i \in 1..Len(n) : n[i] = m[i]
    BY <1>6
  <2> QED
    BY <1>4, <1>5, <2>1, <2>2, StrictMeans
<1> QED
  BY <1>5, <1>7 DEF m, n


-----------------------------------------------------------------------------
(* Trees.                                                                   *)

\* Nothing is under a path with nothing or with a file; what exists can be written.
LEMMA TreeFacts ==
    ASSUME IsTree(tree), NEW p \in Paths
    PROVE  /\ tree[p] = None => \A q \in Paths : IsPrefix(p, q) => tree[q] = None
           /\ tree[p] # None => Reachable(p)
<1>1. ASSUME tree[p] = None, NEW q \in Paths, IsPrefix(p, q) PROVE tree[q] = None
  BY <1>1, StrictMeans, TreeAssumption DEF IsTree
<1>2. ASSUME tree[p] # None, NEW q \in Paths, Parent(q, p) PROVE ~IsFile(tree, q)
  BY <1>2 DEF IsTree, IsFile
<1> QED
  BY <1>1, <1>2 DEF Reachable

\* What is put where nothing stands in its way leaves a tree, and changes only
\* its own path and the folders that were missing above it.
LEMMA PutTree ==
    ASSUME IsTree(tree), NEW p \in Paths, NEW value, Reachable(p),
           value = Dir => ~IsFile(tree, p), value # Dir => tree[p] # Dir
    PROVE  /\ IsTree(Put(p, value))
           /\ Put(p, value)[p] = value
           /\ \A q \in Paths : Put(p, value)[q] # tree[q] =>
                 q = p \/ (Parent(q, p) /\ tree[q] = None /\ Put(p, value)[q] = Dir)
<1> DEFINE t == Put(p, value)
<1>1. /\ \A q \in Paths : Parent(q, p) => t[q] = Dir
      /\ t[p] = value
      /\ \A q \in Paths : ~Parent(q, p) /\ q # p => t[q] = tree[q]
  BY PathOrder DEF Put
<1> HIDE DEF t
<1>2. ASSUME NEW x \in Paths, NEW y \in Paths, t[x] # None, Parent(y, x) PROVE t[y] = Dir
  <2>1. CASE IsPrefix(x, p)
    <3>1. Parent(y, p)
      BY <1>2, <2>1, PathOrder
    <3> QED
      BY <1>1, <3>1
  <2>2. CASE ~IsPrefix(x, p)
    <3>1. t[x] = tree[x]
      BY <1>1, <2>2, StrictMeans
    <3>2. tree[y] = Dir
      BY <1>2, <3>1 DEF IsTree
    <3>3. CASE y = p
      BY <1>1, <3>2, <3>3
    <3>4. CASE y # p
      BY <1>1, <3>2, <3>4
    <3> QED
      BY <3>3, <3>4
  <2> QED
    BY <2>1, <2>2
<1>3. \A q \in Paths : t[q] # tree[q] =>
         q = p \/ (Parent(q, p) /\ tree[q] = None /\ t[q] = Dir)
  BY <1>1 DEF Reachable, IsFile
<1>4. IsTree(t)
  BY <1>2 DEF IsTree
<1> QED
  BY <1>1, <1>3, <1>4 DEF t

\* A subtree that is removed.
LEMMA RemovedTree ==
    ASSUME IsTree(tree), NEW p \in Paths
    PROVE  IsTree([q \in Paths |-> IF IsPrefix(p, q) THEN None ELSE tree[q]])
<1> DEFINE t == [q \in Paths |-> IF IsPrefix(p, q) THEN None ELSE tree[q]]
<1>1. ASSUME NEW x \in Paths, NEW y \in Paths, t[x] # None, Parent(y, x) PROVE t[y] = Dir
  <2>1. ~IsPrefix(p, x) /\ tree[x] # None
    BY <1>1
  <2>2. ~IsPrefix(p, y)
    BY <1>1, <2>1, PathOrder, StrictMeans
  <2> QED
    BY <1>1, <2>1, <2>2 DEF IsTree
<1> QED
  BY <1>1 DEF IsTree


\* A subtree that is moved, with the folders above its new place.
LEMMA RenamedTree ==
    ASSUME IsTree(tree), NEW src \in Paths, NEW to \in Paths, NEW force,
           InBounds(src, to), ~MoveRefused(src, to, force)
    PROVE  LET t == Renamed(src, to)
           IN /\ IsTree(t)
              /\ \A e \in Under(src) : tree[e] # None => t[Moved(e, src, to)] = tree[e]
              /\ \A q \in Paths : t[q] # tree[q] =>
                    \/ IsPrefix(src, q)
                    \/ IsPrefix(to, q) /\ (tree[q] = None \/ force)
                    \/ Parent(q, to) /\ tree[q] = None
              /\ \A q \in Under(src) : t[q] = None
<1> DEFINE t == Renamed(src, to)
           Back(q) == Moved(q, to, src)
<1>1. /\ \A q \in Paths : ~(IsPrefix(src, q) /\ IsPrefix(to, q))
      /\ ~IsPrefix(src, to) /\ ~IsPrefix(to, src)
  BY PathOrder DEF MoveRefused, Overlap
<1>2. ASSUME NEW q \in Paths
      PROVE  /\ Parent(q, to) => t[q] = Dir
             /\ IsPrefix(to, q) => t[q] = IF Back(q) \in Paths THEN tree[Back(q)] ELSE None
             /\ IsPrefix(src, q) => t[q] = None
             /\ ~Parent(q, to) /\ ~IsPrefix(to, q) /\ ~IsPrefix(src, q) => t[q] = tree[q]
  <2>1. ~(IsPrefix(to, q) /\ Parent(q, to)) /\ ~(IsPrefix(src, q) /\ Parent(q, to))
    BY <1>1, PathOrder, StrictMeans
  <2> QED
    BY <1>1, <2>1 DEF Renamed
<1>3. ASSUME NEW e \in Under(src), tree[e] # None PROVE t[Moved(e, src, to)] = tree[e]
  <2>1. e \in Paths /\ IsPrefix(src, e)
    BY DEF Under
  <2>2. Moved(e, src, to) \in Paths
    BY <1>3 DEF InBounds, Existing
  <2>3. IsPrefix(to, Moved(e, src, to)) /\ Back(Moved(e, src, to)) = e
    BY <2>1, <2>2, MovedBack
  <2> HIDE DEF t
  <2> QED
    BY <1>2, <2>1, <2>2, <2>3
<1>4. ASSUME NEW q \in Paths, t[q] # tree[q]
      PROVE  \/ IsPrefix(src, q)
             \/ IsPrefix(to, q) /\ (tree[q] = None \/ force)
             \/ Parent(q, to) /\ tree[q] = None
  <2>1. CASE Parent(q, to)
    <3>1. ~IsFile(tree, q) /\ t[q] = Dir
      BY <1>2, <2>1 DEF MoveRefused, Reachable
    <3> QED
      BY <1>4, <2>1, <3>1 DEF IsFile
  <2>2. CASE IsPrefix(to, q)
    BY <2>2, TreeFacts DEF MoveRefused
  <2>3. CASE ~Parent(q, to) /\ ~IsPrefix(to, q)
    BY <1>2, <1>4, <2>3
  <2> QED
    BY <2>1, <2>2, <2>3
<1>5. \A q \in Under(src) : t[q] = None
  BY <1>2 DEF Under
<1>6. ASSUME NEW x \in Paths, NEW y \in Paths, t[x] # None, Parent(y, x) PROVE t[y] = Dir
  <2>1. CASE Parent(x, to)
    BY <1>2, <1>6, <2>1, PathOrder, StrictMeans
  <2>2. CASE IsPrefix(to, x)
    <3>1. Back(x) \in Paths /\ tree[Back(x)] # None
      BY <1>2, <1>6, <2>2
    <3>2. IsPrefix(y, to) \/ IsPrefix(to, y)
      BY <1>6, <2>2, PathOrder, StrictMeans
    <3>3. CASE IsPrefix(to, y)
      <4>1. Back(y) \in Paths /\ Parent(Back(y), Back(x))
        BY <1>6, <3>1, <3>3, MovedParent
      <4>2. tree[Back(y)] = Dir
        BY <3>1, <4>1 DEF IsTree
      <4> QED
        BY <1>2, <3>3, <4>1, <4>2
    <3>4. CASE Parent(y, to)
      BY <1>2, <3>4
    <3> QED
      BY <3>2, <3>3, <3>4, StrictMeans
  <2>3. CASE ~Parent(x, to) /\ ~IsPrefix(to, x)
    <3>1. ~IsPrefix(src, x) /\ t[x] = tree[x]
      BY <1>2, <1>6, <2>3
    <3>2. tree[y] = Dir
      BY <1>6, <3>1 DEF IsTree
    <3>3. ~IsPrefix(to, y) /\ ~IsPrefix(src, y)
      BY <1>6, <2>3, <3>1, PathOrder, StrictMeans
    <3> QED
      BY <1>2, <3>2, <3>3
  <2> QED
    BY <2>1, <2>2, <2>3
<1>7. IsTree(t)
  BY <1>6 DEF IsTree
<1> QED
  BY <1>3, <1>4, <1>5, <1>7

-----------------------------------------------------------------------------
(* The operations.                                                          *)

\* What LayoutIsExact says of a stage t that operation a has made of the stage b.
DoesExactly(t, b, a) ==
    /\ a.kind \in {"copy", "move"} =>
          \A e \in Under(a.src) : b[e] # None => t[Moved(e, a.src, a.to)] = b[e]
    /\ \A q \in Paths : t[q] # b[q] =>
          \/ a.kind \in {"move", "remove"} /\ IsPrefix(a.src, q)
          \/ IsPrefix(a.to, q) /\ (b[q] = None \/ a.force)
          \/ Parent(q, a.to) /\ b[q] = None
    /\ a.kind \in {"move", "remove"} => \A q \in Under(a.src) : t[q] = None
    /\ a.kind \in {"patch", "restore"} => IsFile(t, a.src)

\* A copy under way: its source is as it was, and the entries that are not in s
\* have arrived.
Copying(t, b, a, s) ==
    /\ a.src \in Paths /\ a.to \in Paths /\ ~Overlap(a.src, a.to)
    /\ IsTree(b)
    /\ \A e \in s : e \in Under(a.src) /\ b[e] # None
    /\ \A e \in Under(a.src) :
          /\ t[e] = b[e]
          /\ b[e] # None => Moved(e, a.src, a.to) \in Paths
          /\ b[e] # None /\ e \notin s => t[Moved(e, a.src, a.to)] = b[e]
    /\ \A q \in Paths : t[q] # b[q] =>
          \/ IsPrefix(a.to, q) /\ (b[q] = None \/ a.force)
          \/ Parent(q, a.to) /\ b[q] = None

\* The stage is a tree whatever fails, and until something fails it is what the
\* last operation was to make of it.
StageInv ==
    /\ IsTree(tree)
    /\ todo \subseteq Paths /\ \A e \in todo : Moved(e, act.src, act.to) \in Paths
    /\ phase # "done" => act = NoAct /\ todo = {}
    /\ layout \in {"open", "placed", "failed"}
    /\ left \in 0..MaxActions \cup 0..MaxAfterFomod
    /\ layout # "failed" =>
          IF act.kind = "copy" THEN Copying(tree, before, act, todo)
          ELSE todo = {} /\ (act.kind # "none" => DoesExactly(tree, before, act))

\* A copy that has ended is exact.
LEMMA CopiedExact ==
    ASSUME NEW t, NEW b, NEW a, a.kind = "copy", Copying(t, b, a, {})
    PROVE  DoesExactly(t, b, a)
BY DEF Copying, DoesExactly

\* The invariant of the stage has the property: what was named arrives as it was.
LEMMA StageExact == StageInv => LayoutIsExact
<1> SUFFICES ASSUME StageInv, Settled PROVE DoesExactly(tree, before, act)
  BY DEF LayoutIsExact, DoesExactly
<1> QED
  BY CopiedExact DEF StageInv, Settled


\* What every operation does when it begins.
LEMMA BeginFields ==
    ASSUME StageInv, phase = "done", NEW kind, NEW src, NEW to, NEW force,
           BeginAct(kind, src, to, force)
    PROVE  /\ act'.kind = kind /\ act'.src = src /\ act'.to = to /\ act'.force = force
           /\ before' = tree /\ IsTree(tree)
           /\ left' \in 0..MaxActions \cup 0..MaxAfterFomod
           /\ layout = "open" /\ todo = {}
<1>1. left \in Nat /\ left > 0 /\ left' = left - 1
  BY PackagesAssumption DEF BeginAct, StageInv
<1>2. left' \in 0..MaxActions \cup 0..MaxAfterFomod
  BY <1>1, PackagesAssumption DEF StageInv
<1> QED
  BY <1>2 DEF BeginAct, Act, StageInv

\* An operation that is not a copy, and is done in one step or fails.
LEMMA DoneAtOnce ==
    ASSUME StageInv, phase = "done", phase' = phase,
           NEW kind, NEW src, NEW to, NEW force, BeginAct(kind, src, to, force),
           kind # "copy", IsTree(tree'), todo' = {}, layout' \in {"open", "failed"},
           layout' # "failed" => DoesExactly(tree', tree, act')
    PROVE  StageInv'
BY BeginFields DEF StageInv

\* Removing a path keeps the stage sound.
LEMMA RemoveStep ==
    ASSUME StageInv, phase = "done", phase' = phase, NEW p \in Paths, RemovePath(p)
    PROVE  StageInv'
<1>1. BeginAct("remove", p, p, FALSE)
  BY DEF RemovePath
<1>2. /\ act'.kind = "remove" /\ act'.src = p /\ act'.to = p
      /\ IsTree(tree) /\ layout = "open" /\ todo = {}
  BY <1>1, BeginFields
<1>3. CASE Fail
  BY <1>1, <1>2, <1>3, DoneAtOnce DEF Fail
<1>4. CASE /\ tree' = [q \in Paths |-> IF IsPrefix(p, q) THEN None ELSE tree[q]]
           /\ UNCHANGED <<todo, layout>>
  <2>1. IsTree(tree')
    BY <1>2, <1>4, RemovedTree
  <2>2. DoesExactly(tree', tree, act')
    BY <1>2, <1>4 DEF DoesExactly, Under
  <2> QED
    BY <1>1, <1>2, <1>4, <2>1, <2>2, DoneAtOnce
<1> QED
  BY <1>3, <1>4 DEF RemovePath

\* Moving a path, over another or not at all, keeps the stage sound.
LEMMA MoveStep ==
    ASSUME StageInv, phase = "done", phase' = phase, NEW src \in Paths, NEW dst, NEW force,
           MovePath(src, dst, force)
    PROVE  StageInv'
<1> DEFINE to == Target("move", src, dst)
<1>1. BeginAct("move", src, to, force) /\ InBounds(src, to) /\ to \in Paths
  BY DEF MovePath, InBounds
<1> HIDE DEF to
<1>2. /\ act'.kind = "move" /\ act'.src = src /\ act'.to = to /\ act'.force = force
      /\ IsTree(tree) /\ layout = "open" /\ todo = {}
  BY <1>1, BeginFields
<1>3. CASE Fail
  BY <1>1, <1>2, <1>3, DoneAtOnce DEF Fail
<1>4. CASE ~MoveRefused(src, to, force) /\ Leave(Renamed(src, to)) /\ UNCHANGED todo
  <2>1. /\ IsTree(tree')
        /\ \A e \in Under(src) : tree[e] # None => tree'[Moved(e, src, to)] = tree[e]
        /\ \A q \in Paths : tree'[q] # tree[q] =>
              \/ IsPrefix(src, q)
              \/ IsPrefix(to, q) /\ (tree[q] = None \/ force)
              \/ Parent(q, to) /\ tree[q] = None
        /\ \A q \in Under(src) : tree'[q] = None
    BY <1>1, <1>2, <1>4, RenamedTree DEF Leave
  <2>2. DoesExactly(tree', tree, act')
    BY <1>2, <2>1 DEF DoesExactly
  <2>3. layout' \in {"open", "failed"}
    BY <1>2, <1>4 DEF Leave
  <2> QED
    BY <1>1, <1>2, <1>4, <2>1, <2>2, <2>3, DoneAtOnce
<1> QED
  BY <1>3, <1>4 DEF MovePath, to

\* A patch and a restored asset are one file.
LEMMA FilePut ==
    ASSUME StageInv, phase = "done", phase' = phase,
           NEW kind \in {"patch", "restore"}, NEW p \in Paths, NEW force, NEW value,
           BeginAct(kind, p, p, force),
           value \notin {None, Dir}, Reachable(p), tree[p] # Dir,
           tree[p] \in {None, value} \/ force,
           Leave(Put(p, value)), UNCHANGED todo
    PROVE  StageInv'
<1>1. /\ act'.kind = kind /\ act'.src = p /\ act'.to = p /\ act'.force = force
      /\ IsTree(tree) /\ layout = "open" /\ todo = {}
  BY BeginFields
<1>2. /\ IsTree(tree')
      /\ tree'[p] = value
      /\ \A q \in Paths : tree'[q] # tree[q] =>
            q = p \/ (Parent(q, p) /\ tree[q] = None /\ tree'[q] = Dir)
  BY <1>1, PutTree DEF Leave
<1>3. DoesExactly(tree', tree, act')
  BY <1>1, <1>2, PathOrder DEF DoesExactly, IsFile
<1>4. layout' \in {"open", "failed"}
  BY <1>1 DEF Leave
<1> QED
  BY <1>1, <1>2, <1>3, <1>4, DoneAtOnce

\* Patching a file changes a file and no folder.
LEMMA PatchStep ==
    ASSUME StageInv, phase = "done", phase' = phase, NEW o \in Operations, o.kind = "patch",
           PatchFile(o)
    PROVE  StageInv'
<1>1. o.src \in Paths /\ o.makes \notin {None, Dir} /\ o.wants \notin {None, Dir}
  BY OperationAssumption
<1>2. BeginAct("patch", o.src, o.src, TRUE)
  BY DEF PatchFile
<1>3. IsTree(tree) /\ layout = "open" /\ todo = {}
  BY <1>2, BeginFields
<1>4. CASE Fail
  BY <1>2, <1>3, <1>4, DoneAtOnce DEF Fail
<1>5. CASE ~PatchRefused(o) /\ Leave(Put(o.src, o.makes)) /\ UNCHANGED todo
  <2>1. Reachable(o.src) /\ tree[o.src] # Dir
    <3>1. tree[o.src] # None => Reachable(o.src)
      BY <1>1, <1>3, TreeFacts
    <3>2. tree[o.src] \in {None, o.wants, o.makes} /\ (tree[o.src] = None => Reachable(o.src))
      BY <1>1, <1>5 DEF PatchRefused
    <3> QED
      BY <1>1, <3>1, <3>2, TreeAssumption
  <2> QED
    BY <1>1, <1>2, <1>5, <2>1, FilePut
<1> QED
  BY <1>4, <1>5 DEF PatchFile

\* Restoring an asset puts a file below folders.
LEMMA RestoreStep ==
    ASSUME StageInv, phase = "done", phase' = phase, NEW o \in Operations, o.kind = "restore",
           RestoreAsset(o)
    PROVE  StageInv'
<1>1. o.src \in Paths /\ o.makes \notin {None, Dir}
  BY OperationAssumption
<1>2. BeginAct("restore", o.src, o.src, o.force)
  BY DEF RestoreAsset
<1>3. IsTree(tree) /\ layout = "open" /\ todo = {}
  BY <1>2, BeginFields
<1>4. CASE Fail
  BY <1>2, <1>3, <1>4, DoneAtOnce DEF Fail
<1>5. CASE ~RestoreRefused(o) /\ Leave(Put(o.src, o.makes)) /\ UNCHANGED todo
  <2>1. /\ Reachable(o.src) /\ tree[o.src] # Dir
        /\ tree[o.src] \in {None, o.makes} \/ o.force
    BY <1>1, <1>3, <1>5, TreeFacts DEF RestoreRefused
  <2> QED
    BY <1>1, <1>2, <1>5, <2>1, FilePut
<1> QED
  BY <1>4, <1>5 DEF RestoreAsset


\* A copy begins with every entry of its source still to be copied.
LEMMA CopyBegins ==
    ASSUME StageInv, phase = "done", phase' = phase, NEW src \in Paths, NEW dst, NEW force,
           CopyPath(src, dst, force)
    PROVE  StageInv'
<1> DEFINE to == Target("copy", src, dst)
<1>1. BeginAct("copy", src, to, force) /\ InBounds(src, to) /\ to \in Paths
  BY DEF CopyPath, InBounds
<1> HIDE DEF to
<1>2. /\ act'.kind = "copy" /\ act'.src = src /\ act'.to = to /\ act'.force = force
      /\ before' = tree /\ IsTree(tree) /\ layout = "open" /\ todo = {}
      /\ left' \in 0..MaxActions \cup 0..MaxAfterFomod
  BY <1>1, BeginFields
<1>3. CASE Fail
  BY <1>2, <1>3 DEF Fail, StageInv
<1>4. CASE ~CopyRefused(src, to, force) /\ todo' = Existing(Under(src)) /\ UNCHANGED <<tree, layout>>
  <2>1. \A e \in Existing(Under(src)) : e \in Paths /\ Moved(e, src, to) \in Paths
    BY <1>1 DEF InBounds, Existing, Under
  <2>2. Copying(tree', before', act', todo')
    BY <1>1, <1>2, <1>4 DEF Copying, CopyRefused, InBounds, Existing, Under
  <2>3. todo' \subseteq Paths /\ \A e \in todo' : Moved(e, act'.src, act'.to) \in Paths
    BY <1>2, <1>4, <2>1
  <2> QED
    BY <1>2, <1>4, <2>2, <2>3 DEF StageInv
<1> QED
  BY <1>3, <1>4 DEF CopyPath, to

\* An entry arrives, after the folders that it is in, whichever comes next.
LEMMA CopyGoesOn ==
    ASSUME NEW e \in todo, Copying(tree, before, act, todo), todo \subseteq Paths,
           \A q \in todo : ~Parent(q, e), IsTree(tree),
           ~Collides(e, Moved(e, act.src, act.to)), act' = act, before' = before,
           tree' = Put(Moved(e, act.src, act.to), tree[e]), todo' = todo \ {e}
    PROVE  Copying(tree', before', act', todo')
<1> DEFINE src == act.src
           to == act.to
           m == Moved(e, src, to)
<1>1. /\ src \in Paths /\ to \in Paths /\ e \in Paths /\ IsPrefix(src, e)
      /\ before[e] # None /\ tree[e] = before[e] /\ m \in Paths
      /\ ~IsPrefix(src, to) /\ ~IsPrefix(to, src) /\ IsTree(before)
  BY DEF Copying, Under, Overlap
<1>2. /\ Reachable(m)
      /\ tree[e] = Dir => ~IsFile(tree, m)
      /\ tree[e] # Dir => tree[m] # Dir /\ (tree[m] = None \/ act.force)
  BY DEF Collides
<1>3. IsPrefix(to, m) /\ Moved(m, to, src) = e
  BY <1>1, MovedBack
<1> HIDE DEF m
<1>4. /\ tree'[m] = before[e]
      /\ \A q \in Paths : tree'[q] # tree[q] =>
            q = m \/ (Parent(q, m) /\ tree[q] = None /\ tree'[q] = Dir)
  BY <1>1, <1>2, PutTree DEF m
\* What is above its new place, and not above the target, has arrived before.
<1>5. ASSUME NEW q \in Paths, Parent(q, m), IsPrefix(to, q) PROVE tree[q] = Dir
  <2> DEFINE d == Moved(q, to, src)
  <2>1. d \in Paths /\ Parent(d, e)
    BY <1>1, <1>3, <1>5, MovedParent
  <2>2. IsPrefix(src, d) /\ Moved(d, src, to) = q
    BY <1>1, <1>5, <2>1, MovedBack
  <2> HIDE DEF d
  <2>3. before[d] = Dir /\ d \notin todo
    BY <1>1, <2>1 DEF IsTree
  <2>4. tree[q] = before[d]
    BY <2>1, <2>2, <2>3, TreeAssumption DEF Copying, Under
  <2> QED
    BY <2>3, <2>4
<1>6. ASSUME NEW q \in Paths, tree'[q] # tree[q]
      PROVE  q = m \/ (Parent(q, to) /\ tree[q] = None /\ tree'[q] = Dir)
  <2> SUFFICES ASSUME q # m PROVE Parent(q, to)
    BY <1>4, <1>6
  <2>1. Parent(q, m) /\ tree[q] = None
    BY <1>4, <1>6
  <2>2. IsPrefix(q, to) \/ IsPrefix(to, q)
    BY <1>1, <1>3, <2>1, PathOrder, StrictMeans
  <2> QED
    BY <1>1, <1>5, <2>1, <2>2, StrictMeans, TreeAssumption
<1>7. ASSUME NEW f \in Under(src) PROVE tree'[f] = tree[f]
  <2>1. f \in Paths /\ IsPrefix(src, f)
    BY DEF Under
  <2>2. ~IsPrefix(to, f)
    BY <1>1, <2>1, PathOrder
  <2>3. ~Parent(f, to)
    BY <1>1, <2>1, PathOrder, StrictMeans
  <2> QED
    BY <1>3, <1>6, <2>1, <2>2, <2>3
<1>8. ASSUME NEW f \in Under(src), before[f] # None, f \notin todo'
      PROVE  tree'[Moved(f, src, to)] = before[f]
  <2> DEFINE n == Moved(f, src, to)
  <2>1. f \in Paths /\ IsPrefix(src, f) /\ n \in Paths
    BY <1>8 DEF Under, Copying
  <2>2. IsPrefix(to, n) /\ Moved(n, to, src) = f
    BY <1>1, <2>1, MovedBack
  <2>3. CASE f = e
    BY <1>4, <2>3 DEF m
  <2>4. CASE f # e
    <3>1. tree[n] = before[f]
      BY <1>8, <2>4 DEF Copying
    <3>2. n # m
      BY <1>3, <2>2, <2>4
    <3>3. ~Parent(n, to)
      BY <1>1, <2>1, <2>2, PathOrder
    <3> HIDE DEF n
    <3> QED
      BY <1>6, <2>1, <3>1, <3>2, <3>3 DEF n
  <2> QED
    BY <2>3, <2>4
<1>9. ASSUME NEW q \in Paths, tree'[q] # before[q]
      PROVE  \/ IsPrefix(to, q) /\ (before[q] = None \/ act.force)
             \/ Parent(q, to) /\ before[q] = None
  <2>1. CASE tree[q] # before[q]
    BY <2>1 DEF Copying
  <2>2. CASE tree[q] = before[q]
    <3>1. CASE q = m
      BY <1>1, <1>2, <1>3, <1>4, <1>9, <2>2, <3>1 DEF IsFile
    <3>2. CASE q # m
      BY <1>6, <1>9, <2>2, <3>2
    <3> QED
      BY <3>1, <3>2
  <2> QED
    BY <2>1, <2>2
<1> QED
  BY <1>1, <1>7, <1>8, <1>9 DEF Copying, m


\* Copying one entry of what is to be copied leaves the others as they were.
LEMMA CopyStep ==
    ASSUME StageInv, phase = "done", phase' = phase, NEW e \in todo, CopyOne(e)
    PROVE  StageInv'
<1> DEFINE m == Moved(e, act.src, act.to)
<1>1. e \in Paths /\ m \in Paths /\ IsTree(tree)
  BY DEF StageInv
<1>2. act' = act /\ before' = before /\ left' = left /\ \A q \in todo : ~Parent(q, e)
  BY DEF CopyOne
<1>3. CASE Fail
  BY <1>2, <1>3 DEF Fail, StageInv
<1>4. CASE /\ ~Collides(e, m) /\ todo' = todo \ {e}
           /\ Leave(Put(m, tree[e])) \/ (tree' = Put(m, tree[e]) /\ UNCHANGED layout)
  <2>1. IsTree(tree')
    BY <1>1, <1>4, PutTree DEF Leave, Collides
  <2>2. layout' \in {layout, "failed"} /\ tree' = Put(m, tree[e])
    BY <1>4 DEF Leave
  <2>3. ASSUME layout' # "failed" PROVE act.kind = "copy" /\ Copying(tree', before', act', todo')
    <3>1. act.kind = "copy" /\ Copying(tree, before, act, todo) /\ todo \subseteq Paths
      BY <2>2, <2>3 DEF StageInv
    <3> QED
      BY <1>1, <1>2, <1>4, <2>2, <3>1, CopyGoesOn
  <2>4. todo' \subseteq Paths /\ \A f \in todo' : Moved(f, act'.src, act'.to) \in Paths
    BY <1>2, <1>4 DEF StageInv
  <2> QED
    BY <1>2, <2>1, <2>2, <2>3, <2>4 DEF StageInv
<1> QED
  BY <1>3, <1>4 DEF CopyOne

\* Any operation, any entry and the decision at the end.
LEMMA LayoutStep ==
    ASSUME StageInv, phase = "done", phase' = phase, LayoutNext
    PROVE  StageInv'
<1>1. ASSUME NEW o \in Operations,
             CASE o.kind = "remove"  -> RemovePath(o.src)
               [] o.kind = "move"    -> MovePath(o.src, o.dst, o.force)
               [] o.kind = "copy"    -> CopyPath(o.src, o.dst, o.force)
               [] o.kind = "patch"   -> PatchFile(o)
               [] o.kind = "restore" -> RestoreAsset(o)
      PROVE  StageInv'
  <2>1. o.src \in Paths /\ o.kind \in {"remove", "move", "copy", "patch", "restore"}
    BY OperationAssumption
  <2> QED
    BY <1>1, <2>1, RemoveStep, MoveStep, CopyBegins, PatchStep, RestoreStep
<1>2. CASE Publish
  BY <1>2 DEF Publish, StageInv
<1> QED
  BY <1>1, <1>2, CopyStep DEF LayoutNext

-----------------------------------------------------------------------------
(* Sorting and joining lists. *)

\* Of two places the first goes before the other.
Goes(key, i, j) == key[i] < key[j] \/ (key[i] = key[j] /\ i < j)

\* The list sorted is list in the order of key; from says which place each comes from.
SortedFrom(from, sorted, list, key) ==
    /\ DOMAIN sorted = 1..Len(list)
    /\ from \in [1..Len(list) -> 1..Len(list)]
    /\ \A k \in 1..Len(list) : sorted[k] = list[from[k]]
    /\ \A i \in 1..Len(list) : \E k \in 1..Len(list) : from[k] = i
    /\ \A k, l \in 1..Len(list) : k < l => Goes(key, from[k], from[l])

\* A stable sort has each place of the list once, in the order of their keys, and of
\* equal keys in the order of the list.
LEMMA SortIsStable ==
    ASSUME NEW list, Len(list) \in Nat, DOMAIN list = 1..Len(list),
           NEW key \in [1..Len(list) -> Int]
    PROVE  \E from : SortedFrom(from, StableSort(list, key), list, key)
<1> DEFINE n == Len(list)
           D == 1..n
           upTo(i) == {j \in D : key[j] < key[i] \/ (key[j] = key[i] /\ j <= i)}
           place == [i \in D |-> Cardinality(upTo(i))]
           from == [k \in D |-> CHOOSE i \in D : place[i] = k]
<1>1. IsFiniteSet(D) /\ Cardinality(D) = n
  <2>1. IsFiniteSet(D) /\ Cardinality(D) = IF 1 > n THEN 0 ELSE n - 1 + 1
    BY FS_Interval
  <2> QED
    BY <2>1
<1>2. ASSUME NEW i \in D
      PROVE  /\ upTo(i) \subseteq D /\ i \in upTo(i) /\ IsFiniteSet(upTo(i))
             /\ Cardinality(upTo(i)) \in D
  <2>1. upTo(i) \subseteq D /\ i \in upTo(i)
    OBVIOUS
  <2>2. IsFiniteSet(upTo(i)) /\ Cardinality(upTo(i)) <= n
    BY <1>1, <2>1, FS_Subset
  <2>3. Cardinality(upTo(i)) \in Nat /\ Cardinality(upTo(i)) # 0
    BY <2>1, <2>2, FS_CardinalityType, FS_EmptySet
  <2> QED
    BY <2>1, <2>2, <2>3
<1>3. ASSUME NEW i \in D, NEW j \in D, Goes(key, i, j) PROVE place[i] < place[j]
  <2>1. upTo(i) \subseteq upTo(j)
    BY <1>3 DEF Goes
  <2>2. j \notin upTo(i)
    BY <1>3 DEF Goes
  <2>3. upTo(i) \in SUBSET upTo(j) /\ upTo(i) # upTo(j)
    BY <1>2, <2>1, <2>2
  <2> HIDE DEF upTo
  <2>4. Cardinality(upTo(i)) <= Cardinality(upTo(j)) /\ Cardinality(upTo(i)) # Cardinality(upTo(j))
    BY <1>2, <2>3, FS_Subset
  <2>5. Cardinality(upTo(i)) < Cardinality(upTo(j))
    BY <1>2, <2>4
  <2> QED
    BY <2>5
<1>4. \A i, j \in D : i = j \/ Goes(key, i, j) \/ Goes(key, j, i)
  BY DEF Goes
<1>5. place \in [D -> D]
  BY <1>2
<1>6. StableSort(list, key) = [k \in D |-> list[from[k]]]
  BY DEF StableSort
<1> HIDE DEF place, upTo
<1>7. \A i, j \in D : place[i] = place[j] => i = j
  BY <1>3, <1>4, <1>5
<1>8. \A k \in D : \E i \in D : place[i] = k
  <2>1. place \in Injection(D, D)
    BY <1>5, <1>7 DEF Injection, IsInjective
  <2>2. place \in Surjection(D, D)
    BY <1>1, <2>1, FS_Injection
  <2> QED
    BY <2>2 DEF Surjection
<1>9. \A k \in D : from[k] \in D /\ place[from[k]] = k
  BY <1>8
<1>10. from \in [D -> D]
  BY <1>9
<1> HIDE DEF from
<1>11. \A i \in D : from[place[i]] = i
  BY <1>5, <1>7, <1>9
<1>12. ASSUME NEW k \in D, NEW l \in D, k < l PROVE Goes(key, from[k], from[l])
  <2>1. ~Goes(key, from[l], from[k])
    BY <1>3, <1>9, <1>12
  <2>2. from[k] # from[l]
    BY <1>9, <1>12
  <2> QED
    BY <1>4, <1>9, <2>1, <2>2
<1>13. \A k \in D : StableSort(list, key)[k] = list[from[k]]
  BY <1>6
<1>14. DOMAIN StableSort(list, key) = D
  BY <1>6
<1>15. \A i \in D : \E k \in D : from[k] = i
  BY <1>5, <1>11
<1>16. SortedFrom(from, StableSort(list, key), list, key)
  BY <1>10, <1>12, <1>13, <1>14, <1>15 DEF SortedFrom
<1> QED
  BY <1>16

\* One turn of joining: the list n is put behind those before it.
JoinStep(g, lists, n) == IF n = 1 THEN lists[n] ELSE g[n - 1] \o lists[n]

\* Lists are joined one after the other, from the first to the last.
LEMMA JoinExists ==
    ASSUME NEW lists, Len(lists) \in Nat \ {0}
    PROVE  \E g : /\ g = [n \in 1..Len(lists) |-> JoinStep(g, lists, n)]
                  /\ FlattenSeq(lists) = g[Len(lists)]
<1> DEFINE P(m) == \E g : g = [n \in 1..m |-> JoinStep(g, lists, n)]
           S == {m \in 0..Len(lists) : P(m)}
<1>1. 0 \in S
  <2> DEFINE g == [n \in 1..0 |-> <<>>]
  <2>1. g = [n \in 1..0 |-> JoinStep(g, lists, n)]
    OBVIOUS
  <2> HIDE DEF g
  <2>2. P(0)
    BY <2>1
  <2>3. 0 \in 0..Len(lists)
    OBVIOUS
  <2> HIDE DEF P
  <2> QED
    BY <2>2, <2>3
<1>2. ASSUME NEW m \in 1..Len(lists), m - 1 \in S PROVE m \in S
  <2>1. PICK g : g = [n \in 1..(m - 1) |-> JoinStep(g, lists, n)]
    BY <1>2
  <2> DEFINE h == [n \in 1..m |-> JoinStep(g, lists, n)]
  <2>2. \A n \in 1..(m - 1) : h[n] = g[n]
    BY <2>1
  <2>3. ASSUME NEW n \in 1..m PROVE JoinStep(h, lists, n) = JoinStep(g, lists, n)
    <3>1. n # 1 => h[n - 1] = g[n - 1]
      BY <2>2
    <3> HIDE DEF h
    <3> QED
      BY <3>1 DEF JoinStep
  <2>4. h = [n \in 1..m |-> JoinStep(h, lists, n)]
    BY <2>3
  <2> HIDE DEF h
  <2>5. P(m)
    BY <2>4
  <2> QED
    BY <2>5
<1>3. Len(lists) \in S
  <2> DEFINE top == Len(lists)
  <2> HIDE DEF S, top
  <2>1. top \in Nat /\ \A m \in 1..top : m - 1 \in S => m \in S
    BY <1>2 DEF top
  <2>2. \A m \in 0..top : m \in S
    BY <1>1, <2>1, Upwards
  <2> QED
    BY <2>1, <2>2 DEF top
<1>4. P(Len(lists))
  BY <1>3
<1>5. FlattenSeq(lists) =
      (CHOOSE h : h = [n \in 1..Len(lists) |-> JoinStep(h, lists, n)])[Len(lists)]
  BY DEF FlattenSeq, JoinStep
<1> QED
  BY <1>4, <1>5

\* The list joined has what the first n lists have, one after the other: from says
\* which list each comes from.
JoinedFrom(from, joined, lists, n) ==
    /\ from \in [1..Len(joined) -> 1..n]
    /\ \A k, l \in 1..Len(joined) : k < l => from[k] <= from[l]
    /\ \A k \in 1..Len(joined) :
          \E i \in 1..Len(lists[from[k]]) : joined[k] = lists[from[k]][i]
    /\ \A m \in 1..n : \A i \in 1..Len(lists[m]) :
          \E k \in 1..Len(joined) : from[k] = m /\ joined[k] = lists[m][i]

Joined(joined, lists, n) == \E from : JoinedFrom(from, joined, lists, n)

\* Another list behind what is joined.
LEMMA JoinsMore ==
    ASSUME NEW V, NEW lists \in Seq(Seq(V)), NEW n \in 1..Len(lists),
           NEW s \in Seq(V), Joined(s, lists, n - 1)
    PROVE  /\ s \o lists[n] \in Seq(V)
           /\ Joined(s \o lists[n], lists, n)
<1> DEFINE top == Len(s)
           last == lists[n]
           t == s \o last
<1>1. n \in Nat /\ top \in Nat /\ last \in Seq(V) /\ Len(last) \in Nat /\ n \in 1..n
  OBVIOUS
<1>2. PICK from : JoinedFrom(from, s, lists, n - 1)
  BY DEF Joined
<1>3. /\ t \in Seq(V) /\ Len(t) = top + Len(last)
      /\ \A k \in 1..Len(t) : t[k] = IF k <= top THEN s[k] ELSE last[k - top]
  BY <1>1, ConcatProperties
<1> HIDE DEF t, top, last
<1> DEFINE more == [k \in 1..Len(t) |-> IF k <= top THEN from[k] ELSE n]
<1>4. \A k \in 1..Len(t) : /\ k \in Nat /\ 1 <= k
                           /\ k <= top => k \in 1..top
                           /\ k > top => k - top \in 1..Len(last)
  BY <1>1, <1>3
<1>5. /\ \A k \in 1..top : k \in 1..Len(t) /\ t[k] = s[k] /\ more[k] = from[k]
      /\ \A i \in 1..Len(last) : top + i \in 1..Len(t) /\ t[top + i] = last[i] /\ more[top + i] = n
  <2>1. \A k \in 1..top : k \in 1..Len(t) /\ k <= top
    BY <1>1, <1>3
  <2>2. \A i \in 1..Len(last) : top + i \in 1..Len(t) /\ ~(top + i <= top) /\ (top + i) - top = i
    BY <1>1, <1>3
  <2> QED
    BY <1>3, <2>1, <2>2
<1>6. \A k \in 1..top : from[k] \in 1..(n - 1) /\ from[k] \in 1..n /\ from[k] < n
  <2>1. from \in [1..top -> 1..(n - 1)]
    BY <1>2 DEF JoinedFrom, top
  <2>2. \A m \in 1..(n - 1) : m \in 1..n /\ m < n
    BY <1>1
  <2> QED
    BY <2>1, <2>2
<1>7. more \in [1..Len(t) -> 1..n]
  BY <1>1, <1>4, <1>6
<1>8. ASSUME NEW k \in 1..Len(t), NEW l \in 1..Len(t), k < l PROVE more[k] <= more[l]
  <2>1. CASE l <= top
    <3>1. k \in 1..top /\ l \in 1..top
      BY <1>1, <1>4, <1>8, <2>1
    <3> QED
      BY <1>2, <1>5, <1>8, <3>1 DEF JoinedFrom, top
  <2>2. CASE l > top
    <3>1. more[l] = n
      BY <1>1, <1>4, <2>2
    <3>2. more[k] \in 1..n
      BY <1>7
    <3> QED
      BY <1>1, <3>1, <3>2
  <2> QED
    BY <1>1, <1>4, <2>1, <2>2
<1>9. ASSUME NEW k \in 1..Len(t)
      PROVE  \E i \in 1..Len(lists[more[k]]) : t[k] = lists[more[k]][i]
  <2>1. CASE k <= top
    <3>1. k \in 1..top
      BY <1>4, <2>1
    <3>2. \E i \in 1..Len(lists[from[k]]) : s[k] = lists[from[k]][i]
      BY <1>2, <3>1 DEF JoinedFrom, top
    <3>3. t[k] = s[k] /\ more[k] = from[k]
      BY <1>5, <3>1
    <3> HIDE DEF more
    <3> QED
      BY <3>2, <3>3
  <2>2. CASE k > top
    <3>1. k - top \in 1..Len(last) /\ t[k] = last[k - top] /\ more[k] = n
      BY <1>1, <1>3, <1>4, <2>2
    <3> QED
      BY <3>1 DEF last
  <2> QED
    BY <1>1, <1>4, <2>1, <2>2
<1> HIDE DEF more
<1>10. ASSUME NEW m \in 1..n, NEW i \in 1..Len(lists[m])
       PROVE  \E k \in 1..Len(t) : more[k] = m /\ t[k] = lists[m][i]
  <2>1. CASE m = n
    BY <1>5, <2>1 DEF last
  <2>2. CASE m # n
    <3>1. m \in 1..(n - 1)
      BY <1>1, <2>2
    <3>2. PICK k \in 1..top : from[k] = m /\ s[k] = lists[m][i]
      BY <1>2, <3>1 DEF JoinedFrom, top
    <3> QED
      BY <1>5, <3>2
  <2> QED
    BY <2>1, <2>2
<1>11. JoinedFrom(more, t, lists, n)
  BY <1>7, <1>8, <1>9, <1>10 DEF JoinedFrom
<1> QED
  BY <1>3, <1>11 DEF Joined, t, last

\* What is joined has each member of each list, and the lists in their order.
LEMMA FlattenJoins ==
    ASSUME NEW V, NEW lists \in Seq(Seq(V))
    PROVE  /\ FlattenSeq(lists) \in Seq(V)
           /\ Joined(FlattenSeq(lists), lists, Len(lists))
<1> DEFINE top == Len(lists)
<1>1. top \in Nat /\ lists \in [1..top -> Seq(V)]
  OBVIOUS
<1>2. <<>> \in Seq(V) /\ Len(<<>>) = 0 /\ 1..0 = {}
  OBVIOUS
<1>3. Joined(<<>>, lists, 0)
  <2> DEFINE none == [k \in 1..0 |-> 0]
  <2>1. none \in [1..0 -> 1..0]
    BY <1>2
  <2> HIDE DEF none
  <2>2. JoinedFrom(none, <<>>, lists, 0)
    BY <1>2, <2>1 DEF JoinedFrom
  <2> QED
    BY <2>2 DEF Joined
<1>4. CASE top = 0
  <2>1. lists = <<>> /\ FlattenSeq(lists) = lists
    BY <1>4 DEF FlattenSeq
  <2> QED
    BY <1>2, <1>3, <1>4, <2>1
<1>5. CASE top # 0
  <2>1. PICK g : /\ g = [n \in 1..top |-> JoinStep(g, lists, n)]
                 /\ FlattenSeq(lists) = g[top]
    BY <1>1, <1>5, JoinExists
  <2> DEFINE S == {n \in 0..top : n # 0 => g[n] \in Seq(V) /\ Joined(g[n], lists, n)}
  <2>2. \A n \in 1..top : g[n] = JoinStep(g, lists, n)
    BY <2>1
  <2>3. 0 \in S
    BY <1>1
  <2>4. ASSUME NEW n \in 1..top, n - 1 \in S PROVE n \in S
    <3> DEFINE s == IF n = 1 THEN <<>> ELSE g[n - 1]
    <3>1. lists[n] \in Seq(V) /\ n \in Nat \ {0}
      BY <1>1
    <3>2. s \in Seq(V) /\ Joined(s, lists, n - 1)
      BY <1>2, <1>3, <2>4, <3>1
    <3>3. g[n] = s \o lists[n]
      <4>1. <<>> \o lists[n] = lists[n]
        BY <3>1
      <4> QED
        BY <2>2, <4>1 DEF JoinStep
    <3> HIDE DEF s
    <3>4. g[n] \in Seq(V) /\ Joined(g[n], lists, n)
      BY <3>2, <3>3, JoinsMore
    <3> QED
      BY <3>4
  <2>5. top \in S
    <3> HIDE DEF S, top
    <3>1. \A n \in 1..top : n - 1 \in S => n \in S
      BY <2>4
    <3>2. \A n \in 0..top : n \in S
      BY <1>1, <2>3, <3>1, Upwards
    <3> QED
      BY <1>1, <3>2
  <2> QED
    BY <1>5, <2>1, <2>5
<1> QED
  BY <1>4, <1>5

\* What is joined has the members of the lists.
LEMMA FlattenMembers ==
    ASSUME NEW V, NEW lists \in Seq(Seq(V))
    PROVE  /\ FlattenSeq(lists) \in Seq(V)
           /\ ToSet(FlattenSeq(lists)) = UNION {ToSet(lists[m]) : m \in DOMAIN lists}
<1> DEFINE t == FlattenSeq(lists)
<1>1. t \in Seq(V) /\ Joined(t, lists, Len(lists))
  BY FlattenJoins
<1> HIDE DEF t
<1>2. PICK from : JoinedFrom(from, t, lists, Len(lists))
  BY <1>1 DEF Joined
<1>3. /\ DOMAIN t = 1..Len(t) /\ DOMAIN lists = 1..Len(lists)
      /\ \A m \in 1..Len(lists) : DOMAIN lists[m] = 1..Len(lists[m])
  BY <1>1
<1>4. ASSUME NEW x \in ToSet(t) PROVE \E m \in 1..Len(lists) : x \in ToSet(lists[m])
  <2>1. PICK k \in 1..Len(t) : x = t[k]
    BY <1>3 DEF ToSet
  <2>2. PICK i \in 1..Len(lists[from[k]]) : t[k] = lists[from[k]][i]
    BY <1>2 DEF JoinedFrom
  <2>3. from[k] \in 1..Len(lists)
    BY <1>2 DEF JoinedFrom
  <2>4. x \in ToSet(lists[from[k]])
    BY <1>3, <2>1, <2>2, <2>3 DEF ToSet
  <2> QED
    BY <2>3, <2>4
<1>5. ASSUME NEW m \in 1..Len(lists), NEW x \in ToSet(lists[m]) PROVE x \in ToSet(t)
  <2>1. PICK i \in 1..Len(lists[m]) : x = lists[m][i]
    BY <1>3 DEF ToSet
  <2>2. PICK k \in 1..Len(t) : t[k] = lists[m][i]
    BY <1>2 DEF JoinedFrom
  <2> QED
    BY <1>3, <2>1, <2>2 DEF ToSet
<1> QED
  BY <1>1, <1>3, <1>4, <1>5 DEF t

\* The members of a list in an order are those of the list, with each name once.
LEMMA InOrderMembers ==
    ASSUME NEW list, IsOrdered(list)
    PROVE  /\ InOrder(list) \in Seq(ToSet(list.items))
           /\ ToSet(InOrder(list)) = ToSet(list.items)
           /\ \A k, l \in DOMAIN InOrder(list) :
                 InOrder(list)[k].name = InOrder(list)[l].name => k = l
<1> DEFINE items == list.items
           key == [i \in DOMAIN items |->
                     CASE list.order = "Explicit"   -> 0
                       [] list.order = "Ascending"  -> items[i].name
                       [] list.order = "Descending" -> -items[i].name]
           t == InOrder(list)
           n == Len(items)
<1>1. /\ items \in Seq(ToSet(items)) /\ n \in Nat /\ DOMAIN items = 1..n
      /\ \A i \in 1..n : items[i].name \in Int
      /\ \A i, j \in 1..n : items[i].name = items[j].name => i = j
      /\ list.order \in {"Explicit", "Ascending", "Descending"}
  BY DEF IsOrdered, IsList
<1>2. key \in [1..n -> Int]
  BY <1>1
<1>3. t = StableSort(items, key)
  BY DEF InOrder
<1> HIDE DEF key, t
<1>4. PICK from : SortedFrom(from, t, items, key)
  BY <1>1, <1>2, <1>3, SortIsStable
<1> HIDE DEF items, n
<1>5. /\ DOMAIN t = 1..n /\ \A k \in 1..n : from[k] \in 1..n /\ t[k] = items[from[k]]
      /\ \A i \in 1..n : \E k \in 1..n : from[k] = i
      /\ \A k, l \in 1..n : k < l => from[k] # from[l]
  <2>1. \A k, l \in 1..n : k < l => Goes(key, from[k], from[l])
    BY <1>4 DEF SortedFrom, n
  <2>2. \A k \in 1..n : from[k] \in 1..n /\ key[from[k]] \in Int
    BY <1>2, <1>4 DEF SortedFrom, n
  <2>3. \A k, l \in 1..n : k < l => from[k] # from[l]
    <3>1. \A i \in 1..n : ~Goes(key, i, i)
      BY <1>2 DEF Goes
    <3> QED
      BY <2>1, <2>2, <3>1
  <2> QED
    BY <1>4, <2>2, <2>3 DEF SortedFrom, n
<1>6. \A i \in 1..n : items[i] \in ToSet(items)
  BY <1>1 DEF ToSet
<1>7. t \in [1..n -> ToSet(items)]
  <2>1. t = [k \in DOMAIN t |-> t[k]]
    BY <1>3 DEF StableSort
  <2> QED
    BY <1>5, <1>6, <2>1
<1>8. t \in Seq(ToSet(items))
  BY <1>1, <1>7
<1>9. ToSet(t) = ToSet(items)
  <2>1. ASSUME NEW x \in ToSet(t) PROVE x \in ToSet(items)
    <3>1. PICK k \in 1..n : x = t[k]
      BY <1>5 DEF ToSet
    <3> QED
      BY <1>5, <1>6, <3>1
  <2>2. ASSUME NEW x \in ToSet(items) PROVE x \in ToSet(t)
    <3>1. PICK i \in 1..n : x = items[i]
      BY <1>1 DEF ToSet, items, n
    <3>2. PICK k \in 1..n : from[k] = i
      BY <1>5
    <3>3. x = t[k] /\ k \in DOMAIN t
      BY <1>5, <3>1, <3>2
    <3> QED
      BY <3>3 DEF ToSet
  <2> QED
    BY <2>1, <2>2
<1>10. ASSUME NEW k \in 1..n, NEW l \in 1..n, t[k].name = t[l].name PROVE k = l
  <2>1. from[k] = from[l]
    <3>1. /\ items[from[k]].name = items[from[l]].name
          /\ from[k] \in 1..n /\ from[l] \in 1..n
      BY <1>5, <1>10
    <3> QED
      BY <1>1, <3>1
  <2>2. k \in Int /\ l \in Int
    OBVIOUS
  <2> QED
    BY <1>5, <2>1, <2>2
<1> QED
  BY <1>5, <1>8, <1>9, <1>10 DEF t, items

-----------------------------------------------------------------------------
(* Installers: what the steps of one and its selections J come to when the  *)
(* selections c are used.                                                  *)

StepsIn(J) == InOrder(J.steps)
PickedIn(J, step, group) ==
    {o \in Options(group) : o.name \in J.selections[Key(step, group)]}
SetByIn(J, step) == UNION {o.sets : o \in UNION {PickedIn(J, step, g) : g \in Groups(step)}}
InstallsIn(J, step, group, o, f, values) ==
    \/ o \in PickedIn(J, step, group) \/ f.always
    \/ f.ifUsable /\ OptionType(o, values) # "NotUsable"
ShownIn(J, c, k) == \E g \in Groups(StepsIn(J)[k]) : Key(StepsIn(J)[k], g) \in c
SettingIn(J, c, k, f) ==
    {j \in DOMAIN StepsIn(J) : j < k /\ ShownIn(J, c, j) /\ \E s \in SetByIn(J, StepsIn(J)[j]) : s[1] = f}
ValueIn(J, j, f) == (CHOOSE s \in SetByIn(J, StepsIn(J)[j]) : s[1] = f)[2]
BeforeIn(J, c, k) ==
    [f \in Flags |-> IF SettingIn(J, c, k, f) = {} THEN None
                     ELSE ValueIn(J, Max(SettingIn(J, c, k, f)), f)]
OffersIn(J, step, values) ==
    UNION {UNION {{f \in ToSet(o.files) : InstallsIn(J, step, g, o, f, values)} :
                     o \in Options(g)} : g \in Groups(step)}
ConditionalIn(J, values) ==
    UNION {ToSet(c.files) : c \in {c \in ToSet(J.conditional) : Matches(c.when, values)}}
ChosenIn(J, c, k) ==
    IF k = 0 THEN ToSet(J.required)
    ELSE IF k > Len(StepsIn(J)) THEN ConditionalIn(J, BeforeIn(J, c, k))
    ELSE IF ~ShownIn(J, c, k) THEN {}
    ELSE OffersIn(J, StepsIn(J)[k], BeforeIn(J, c, k))

\* What the state's own installer comes to.
LEMMA InJob ==
    /\ Steps = StepsIn(job)
    /\ \A step : SetBy(step) = SetByIn(job, step)
    /\ \A step, g, o, f, values : Installs(step, g, o, f, values) = InstallsIn(job, step, g, o, f, values)
    /\ \A k : Shown(k) = ShownIn(job, consumed, k)
    /\ \A k : Before(k) = BeforeIn(job, consumed, k)
    /\ \A k : Chosen(k) = ChosenIn(job, consumed, k)
<1>1. Steps = StepsIn(job)
  BY DEF Steps, StepsIn
<1>2. \A step, g : Picked(step, g) = PickedIn(job, step, g)
  BY DEF Picked, PickedIn, Selection
<1>3. ASSUME NEW step PROVE SetBy(step) = SetByIn(job, step)
  BY <1>2 DEF SetBy, SetByIn
<1>4. \A step, g, o, f, values : Installs(step, g, o, f, values) = InstallsIn(job, step, g, o, f, values)
  BY <1>2 DEF Installs, InstallsIn
<1>5. \A k : Shown(k) = ShownIn(job, consumed, k)
  BY <1>1 DEF Shown, ShownIn
<1>6. ASSUME NEW k PROVE Before(k) = BeforeIn(job, consumed, k)
  <2>1. ASSUME NEW f \in Flags
        PROVE  SettingIn(job, consumed, k, f) =
                  {j \in DOMAIN Steps : j < k /\ Shown(j) /\ \E s \in SetBy(Steps[j]) : s[1] = f}
    BY <1>1, <1>3, <1>5 DEF SettingIn
  <2>2. ASSUME NEW f, NEW j PROVE (CHOOSE s \in SetBy(Steps[j]) : s[1] = f)[2] = ValueIn(job, j, f)
    BY <1>1, <1>3 DEF ValueIn
  <2> DEFINE setting(f) ==
               {j \in DOMAIN Steps : j < k /\ Shown(j) /\ \E s \in SetBy(Steps[j]) : s[1] = f}
             value(f, j) == (CHOOSE s \in SetBy(Steps[j]) : s[1] = f)[2]
  <2>3. Before(k) = [f \in Flags |-> IF setting(f) = {} THEN None ELSE value(f, Max(setting(f)))]
    BY DEF Before
  <2>4. ASSUME NEW f \in Flags
        PROVE  setting(f) = SettingIn(job, consumed, k, f) /\ \A j : value(f, j) = ValueIn(job, j, f)
    BY <2>1, <2>2
  <2> HIDE DEF setting, value
  <2>5. \A f \in Flags :
           (IF setting(f) = {} THEN None ELSE value(f, Max(setting(f)))) =
           (IF SettingIn(job, consumed, k, f) = {} THEN None
            ELSE ValueIn(job, Max(SettingIn(job, consumed, k, f)), f))
    BY <2>4
  <2> QED
    BY <2>3, <2>5 DEF BeforeIn
<1>7. ASSUME NEW k PROVE Chosen(k) = ChosenIn(job, consumed, k)
  <2>1. UNION {UNION {{f \in ToSet(o.files) : Installs(Steps[k], g, o, f, Before(k))} :
                         o \in Options(g)} : g \in Groups(Steps[k])}
        = OffersIn(job, Steps[k], Before(k))
    BY <1>4 DEF OffersIn
  <2>2. UNION {ToSet(c.files) : c \in {c \in ToSet(job.conditional) : Matches(c.when, Before(k))}}
        = ConditionalIn(job, Before(k))
    BY DEF ConditionalIn
  <2>3. Chosen(k) = IF k = 0 THEN ToSet(job.required)
                    ELSE IF k > Len(Steps) THEN ConditionalIn(job, Before(k))
                    ELSE IF ~Shown(k) THEN {} ELSE OffersIn(job, Steps[k], Before(k))
    BY <2>1, <2>2, Zenon DEF Chosen
  <2> QED
    BY <1>1, <1>5, <1>6, <2>3 DEF ChosenIn
<1> QED
  BY <1>1, <1>3, <1>4, <1>5, <1>6, <1>7

\* The flags before a step depend only on which earlier steps were shown.
LEMMA BeforeSame ==
    ASSUME NEW J, NEW c, NEW d, NEW k \in Int,
           \A j \in DOMAIN StepsIn(J) : j < k => (ShownIn(J, c, j) <=> ShownIn(J, d, j))
    PROVE  BeforeIn(J, c, k) = BeforeIn(J, d, k)
<1>1. \A f : SettingIn(J, c, k, f) = SettingIn(J, d, k, f)
  BY DEF SettingIn
<1> QED
  BY <1>1 DEF BeforeIn

\* So does what is chosen of it, given whether it was shown itself.
LEMMA ChosenSame ==
    ASSUME NEW J, NEW c, NEW d, NEW k \in Int,
           \A j \in DOMAIN StepsIn(J) : j < k => (ShownIn(J, c, j) <=> ShownIn(J, d, j)),
           ShownIn(J, c, k) <=> ShownIn(J, d, k)
    PROVE  ChosenIn(J, c, k) = ChosenIn(J, d, k)
BY BeforeSame DEF ChosenIn

\* Before the first step no flag is set.
LEMMA BeforeFirst ==
    ASSUME NEW J, NEW c, DOMAIN StepsIn(J) \subseteq Nat \ {0}
    PROVE  BeforeIn(J, c, 1) = [f \in Flags |-> None]
<1>1. \A f : SettingIn(J, c, 1, f) = {}
  BY DEF SettingIn
<1> QED
  BY <1>1 DEF BeforeIn

\* A step that is shown sets its flags over the earlier ones.
LEMMA BeforeNext ==
    ASSUME NEW J, NEW c, DOMAIN StepsIn(J) \subseteq Nat, NEW k \in DOMAIN StepsIn(J)
    PROVE  BeforeIn(J, c, k + 1) =
              [f \in Flags |-> IF ShownIn(J, c, k) /\ \E s \in SetByIn(J, StepsIn(J)[k]) : s[1] = f
                               THEN ValueIn(J, k, f) ELSE BeforeIn(J, c, k)[f]]
<1> SUFFICES ASSUME NEW f \in Flags
             PROVE  (IF SettingIn(J, c, k + 1, f) = {} THEN None
                     ELSE ValueIn(J, Max(SettingIn(J, c, k + 1, f)), f)) =
                    (IF ShownIn(J, c, k) /\ \E s \in SetByIn(J, StepsIn(J)[k]) : s[1] = f
                     THEN ValueIn(J, k, f) ELSE BeforeIn(J, c, k)[f])
  BY DEF BeforeIn
<1> DEFINE S == SettingIn(J, c, k + 1, f)
           sets == ShownIn(J, c, k) /\ \E s \in SetByIn(J, StepsIn(J)[k]) : s[1] = f
<1>1. k \in Nat /\ \A j \in DOMAIN StepsIn(J) : j < k + 1 <=> j < k \/ j = k
  OBVIOUS
<1>2. CASE sets
  <2>1. k \in S /\ S \subseteq Nat /\ \A j \in S : k >= j
    BY <1>1, <1>2 DEF SettingIn
  <2> HIDE DEF S
  <2>2. Max(S) = k
    <3>1. \A x \in S : (\A y \in S : x >= y) => x = k
      BY <1>1, <2>1
    <3>2. \E x \in S : \A y \in S : x >= y
      BY <2>1
    <3> QED
      BY <3>1, <3>2 DEF Max
  <2>3. S # {}
    BY <2>1
  <2> QED
    BY <1>2, <2>2, <2>3 DEF S
<1>3. CASE ~sets
  <2>1. S = SettingIn(J, c, k, f)
    BY <1>1, <1>3 DEF SettingIn
  <2>2. BeforeIn(J, c, k)[f] = IF SettingIn(J, c, k, f) = {} THEN None
                               ELSE ValueIn(J, Max(SettingIn(J, c, k, f)), f)
    BY DEF BeforeIn
  <2> QED
    BY <1>3, <2>1, <2>2
<1> QED
  BY <1>2, <1>3

\* Every directive of an installer.
OfGroup(g) == UNION {ToSet(o.files) : o \in Options(g)}
OfStep(s) == UNION {OfGroup(g) : g \in Groups(s)}
OfSteps(J) == UNION {OfStep(s) : s \in ToSet(J.steps.items)}
OfPatterns(J) == UNION {ToSet(c.files) : c \in ToSet(J.conditional)}
DirectivesIn(J) == ToSet(J.required) \cup OfPatterns(J) \cup OfSteps(J)

\* What an installer is made of.
LEMMA InstallerParts ==
    ASSUME NEW J \in Installers
    PROVE  /\ StepsIn(J) \in Seq(ToSet(J.steps.items))
           /\ \A k, l \in DOMAIN StepsIn(J) : StepsIn(J)[k].name = StepsIn(J)[l].name => k = l
           /\ J.required \in Seq(DirectivesIn(J))
           /\ J.conditional \in Seq(ToSet(J.conditional))
           /\ \A c \in ToSet(J.conditional) : c.files \in Seq(DirectivesIn(J))
           /\ \A s \in ToSet(J.steps.items) :
                 /\ IsOrdered(s.groups)
                 /\ \A g \in Groups(s) :
                       /\ IsOrdered(g.plugins)
                       /\ \A o \in Options(g) : o.files \in Seq(DirectivesIn(J))
           /\ \A f \in DirectivesIn(J) :
                 /\ f.priority \in Int /\ f.entries \in Seq(ToSet(f.entries))
                 /\ \A e \in ToSet(f.entries) : e.is # None
<1>1. /\ AreDirectives(J.required) /\ IsOrdered(J.steps) /\ IsList(J.conditional)
      /\ \A c \in ToSet(J.conditional) : AreDirectives(c.files)
      /\ \A s \in ToSet(J.steps.items) :
            /\ IsOrdered(s.groups)
            /\ \A g \in Groups(s) :
                  /\ IsOrdered(g.plugins)
                  /\ \A o \in Options(g) : AreDirectives(o.files)
  BY InstallerAssumption DEF Groups, Options
<1>2. /\ StepsIn(J) \in Seq(ToSet(J.steps.items))
      /\ \A k, l \in DOMAIN StepsIn(J) : StepsIn(J)[k].name = StepsIn(J)[l].name => k = l
  BY <1>1, InOrderMembers DEF StepsIn
<1>3. \A list : AreDirectives(list) /\ ToSet(list) \subseteq DirectivesIn(J)
                   => list \in Seq(DirectivesIn(J))
  BY DEF AreDirectives, IsList
<1>4. /\ ToSet(J.required) \subseteq DirectivesIn(J)
      /\ \A c \in ToSet(J.conditional) : ToSet(c.files) \subseteq DirectivesIn(J)
      /\ \A s \in ToSet(J.steps.items) : \A g \in Groups(s) : \A o \in Options(g) :
            ToSet(o.files) \subseteq DirectivesIn(J)
  <2>1. \A g : \A o \in Options(g) : ToSet(o.files) \subseteq OfGroup(g)
    BY DEF OfGroup
  <2>2. \A s : \A g \in Groups(s) : OfGroup(g) \subseteq OfStep(s)
    BY DEF OfStep
  <2>3. \A s \in ToSet(J.steps.items) : OfStep(s) \subseteq OfSteps(J)
    BY DEF OfSteps
  <2>4. \A c \in ToSet(J.conditional) : ToSet(c.files) \subseteq OfPatterns(J)
    BY DEF OfPatterns
  <2>5. ASSUME NEW s \in ToSet(J.steps.items), NEW g \in Groups(s), NEW o \in Options(g)
        PROVE  ToSet(o.files) \subseteq DirectivesIn(J)
    <3>1. ToSet(o.files) \subseteq OfGroup(g) /\ OfGroup(g) \subseteq OfStep(s)
          /\ OfStep(s) \subseteq OfSteps(J)
      BY <2>1, <2>2, <2>3
    <3> QED
      BY <3>1 DEF DirectivesIn
  <2> QED
    BY <2>4, <2>5 DEF DirectivesIn
<1>5. ASSUME NEW f \in DirectivesIn(J)
      PROVE  /\ f.priority \in Int /\ f.entries \in Seq(ToSet(f.entries))
             /\ \A e \in ToSet(f.entries) : e.is # None
  <2>1. \A list : AreDirectives(list) /\ f \in ToSet(list) =>
           /\ f.priority \in Int /\ f.entries \in Seq(ToSet(f.entries))
           /\ \A e \in ToSet(f.entries) : e.is # None
    BY DEF AreDirectives, IsList
  <2>2. \/ f \in ToSet(J.required)
        \/ \E c \in ToSet(J.conditional) : f \in ToSet(c.files)
        \/ \E s \in ToSet(J.steps.items) : \E g \in Groups(s) : \E o \in Options(g) : f \in ToSet(o.files)
    <3>1. CASE f \in OfSteps(J)
      <4>1. PICK s \in ToSet(J.steps.items) : f \in OfStep(s)
        BY <3>1 DEF OfSteps
      <4>2. PICK g \in Groups(s) : f \in OfGroup(g)
        BY <4>1 DEF OfStep
      <4>3. PICK o \in Options(g) : f \in ToSet(o.files)
        BY <4>2 DEF OfGroup
      <4> QED
        BY <4>3
    <3>2. CASE f \in ToSet(J.required) \/ f \in OfPatterns(J)
      BY <3>2 DEF OfPatterns
    <3> QED
      BY <1>5, <3>1, <3>2 DEF DirectivesIn
  <2> QED
    BY <1>1, <2>1, <2>2
<1>6. J.required \in Seq(DirectivesIn(J)) /\ J.conditional \in Seq(ToSet(J.conditional))
  BY <1>1, <1>3, <1>4 DEF IsList
<1>7. \A c \in ToSet(J.conditional) : c.files \in Seq(DirectivesIn(J))
  BY <1>1, <1>3, <1>4
<1>8. \A s \in ToSet(J.steps.items) :
         /\ IsOrdered(s.groups)
         /\ \A g \in Groups(s) :
               /\ IsOrdered(g.plugins)
               /\ \A o \in Options(g) : o.files \in Seq(DirectivesIn(J))
  BY <1>1, <1>3, <1>4
<1> QED
  BY <1>2, <1>5, <1>6, <1>7, <1>8

\* The lists are what F makes of the members of list.
Maps(lists, list, F, S, V) ==
    /\ list \in Seq(S) /\ F \in [S -> Seq(V)]
    /\ lists \in Seq(Seq(V)) /\ DOMAIN lists = DOMAIN list
    /\ \A i \in DOMAIN list : lists[i] = F[list[i]]

\* Joining such lists.
LEMMA FlattenMap ==
    ASSUME NEW V, NEW S, NEW list, NEW F, NEW lists, Maps(lists, list, F, S, V)
    PROVE  /\ FlattenSeq(lists) \in Seq(V)
           /\ \A x : x \in ToSet(FlattenSeq(lists)) <=> \E y \in ToSet(list) : x \in ToSet(F[y])
<1>1. /\ FlattenSeq(lists) \in Seq(V)
      /\ ToSet(FlattenSeq(lists)) = UNION {ToSet(lists[m]) : m \in DOMAIN lists}
  BY FlattenMembers DEF Maps
<1>2. \A x : x \in UNION {ToSet(lists[m]) : m \in DOMAIN lists} <=>
                \E m \in DOMAIN lists : x \in ToSet(lists[m])
  OBVIOUS
<1>3. ASSUME NEW x
      PROVE  (\E m \in DOMAIN list : x \in ToSet(F[list[m]])) <=> \E y \in ToSet(list) : x \in ToSet(F[y])
  <2>1. ToSet(list) = {list[m] : m \in DOMAIN list}
    BY DEF ToSet
  <2> QED
    BY <2>1
<1> QED
  BY <1>1, <1>2, <1>3 DEF Maps

\* The files that an option adds are those of its files that are installed.
LEMMA OptionOffers ==
    ASSUME NEW V, NEW g, NEW o, o.files \in Seq(V)
    PROVE  /\ OptionFiles(g, o) \in Seq(V)
           /\ \A f : f \in ToSet(OptionFiles(g, o)) <=>
                        f \in ToSet(o.files) /\ InstallsIn(job, Step, g, o, f, flags)
<1> DEFINE F == [f \in V |-> IF Installs(Step, g, o, f, flags) THEN <<f>> ELSE <<>>]
           lists == [i \in DOMAIN o.files |->
                       IF Installs(Step, g, o, o.files[i], flags) THEN <<o.files[i]>> ELSE <<>>]
<1>1. F \in [V -> Seq(V)]
  OBVIOUS
<1>2. /\ \A i \in DOMAIN o.files : o.files[i] \in V
      /\ DOMAIN o.files = 1..Len(o.files) /\ Len(o.files) \in Nat
  OBVIOUS
<1>3. /\ lists \in Seq(Seq(V)) /\ DOMAIN lists = DOMAIN o.files
      /\ \A i \in DOMAIN o.files : lists[i] = F[o.files[i]]
      /\ OptionFiles(g, o) = FlattenSeq(lists)
  <2>1. lists \in [1..Len(o.files) -> Seq(V)] /\ \A i \in DOMAIN o.files : lists[i] = F[o.files[i]]
    BY <1>2
  <2>2. OptionFiles(g, o) = FlattenSeq(lists)
    BY DEF OptionFiles
  <2> QED
    BY <1>2, <2>1, <2>2
<1>4. \A f, y \in V : f \in ToSet(F[y]) <=> f = y /\ Installs(Step, g, o, y, flags)
  <2>1. \A y : ToSet(<<y>>) = {y}
    BY DEF ToSet
  <2>2. ToSet(<<>>) = {}
    BY DEF ToSet
  <2> QED
    BY <2>1, <2>2
<1>5. \A y : y \in ToSet(o.files) => y \in V
  BY DEF ToSet
<1> DEFINE list == o.files
<1> HIDE DEF F, lists, list
<1>6. /\ OptionFiles(g, o) \in Seq(V)
      /\ \A f : f \in ToSet(OptionFiles(g, o)) <=> \E y \in ToSet(o.files) : f \in ToSet(F[y])
  <2>1. Maps(lists, list, F, V, V)
    BY <1>1, <1>3 DEF list, Maps
  <2>2. /\ FlattenSeq(lists) \in Seq(V)
        /\ \A f : f \in ToSet(FlattenSeq(lists)) <=> \E y \in ToSet(list) : f \in ToSet(F[y])
    BY <2>1, FlattenMap
  <2> QED
    BY <1>3, <2>2 DEF list
<1>7. \A f : f \in ToSet(OptionFiles(g, o)) => f \in V
  BY <1>6 DEF ToSet
<1>8. \A f : f \in ToSet(OptionFiles(g, o)) <=> f \in ToSet(o.files) /\ Installs(Step, g, o, f, flags)
  BY <1>4, <1>5, <1>6, <1>7
<1> QED
  BY <1>6, <1>8, InJob

\* Those of a group are those of its options.
LEMMA GroupOffers ==
    ASSUME NEW V, NEW g, IsOrdered(g.plugins), \A o \in Options(g) : o.files \in Seq(V)
    PROVE  /\ GroupFiles(g) \in Seq(V)
           /\ \A f : f \in ToSet(GroupFiles(g)) <=>
                        \E o \in Options(g) :
                            f \in ToSet(o.files) /\ InstallsIn(job, Step, g, o, f, flags)
<1> DEFINE F == [o \in Options(g) |-> OptionFiles(g, o)]
           list == InOrder(g.plugins)
           lists == [i \in DOMAIN list |-> OptionFiles(g, list[i])]
<1>1. F \in [Options(g) -> Seq(V)]
  BY OptionOffers
<1>2. list \in Seq(Options(g)) /\ ToSet(list) = Options(g)
  BY InOrderMembers DEF Options
<1>3. /\ lists \in Seq(Seq(V)) /\ DOMAIN lists = DOMAIN list
      /\ \A i \in DOMAIN list : lists[i] = F[list[i]]
      /\ GroupFiles(g) = FlattenSeq(lists)
  <2>1. /\ \A i \in DOMAIN list : list[i] \in Options(g)
        /\ DOMAIN list = 1..Len(list) /\ Len(list) \in Nat
    BY <1>2
  <2>2. lists \in [1..Len(list) -> Seq(V)] /\ \A i \in DOMAIN list : lists[i] = F[list[i]]
    BY <1>1, <2>1
  <2>3. GroupFiles(g) = FlattenSeq(lists)
    BY DEF GroupFiles
  <2> QED
    BY <2>1, <2>2, <2>3
<1>4. \A o \in Options(g) : F[o] = OptionFiles(g, o)
  OBVIOUS
<1> HIDE DEF F, list, lists
<1>5. /\ GroupFiles(g) \in Seq(V)
      /\ \A f : f \in ToSet(GroupFiles(g)) <=> \E o \in Options(g) : f \in ToSet(F[o])
  <2>1. Maps(lists, list, F, Options(g), V)
    BY <1>1, <1>2, <1>3 DEF Maps
  <2> QED
    BY <1>2, <1>3, <2>1, FlattenMap
<1>6. \A o \in Options(g) : \A f : f \in ToSet(F[o]) <=>
         f \in ToSet(o.files) /\ InstallsIn(job, Step, g, o, f, flags)
  BY <1>4, OptionOffers
<1> QED
  BY <1>5, <1>6

\* Those of a step are those of its groups.
LEMMA StepOffers ==
    ASSUME job \in Installers, Step \in ToSet(job.steps.items)
    PROVE  /\ StepFiles \in Seq(DirectivesIn(job))
           /\ ToSet(StepFiles) = OffersIn(job, Step, flags)
<1> DEFINE V == DirectivesIn(job)
           F == [g \in Groups(Step) |-> GroupFiles(g)]
           list == InOrder(Step.groups)
           lists == [i \in DOMAIN list |-> GroupFiles(list[i])]
<1>1. /\ IsOrdered(Step.groups)
      /\ \A g \in Groups(Step) : IsOrdered(g.plugins) /\ \A o \in Options(g) : o.files \in Seq(V)
  BY InstallerParts
<1> HIDE DEF V
<1>2. F \in [Groups(Step) -> Seq(V)]
  BY <1>1, GroupOffers
<1>3. list \in Seq(Groups(Step)) /\ ToSet(list) = Groups(Step)
  BY <1>1, InOrderMembers DEF Groups
<1>4. /\ lists \in Seq(Seq(V)) /\ DOMAIN lists = DOMAIN list
      /\ \A i \in DOMAIN list : lists[i] = F[list[i]]
      /\ StepFiles = FlattenSeq(lists)
  <2>1. /\ \A i \in DOMAIN list : list[i] \in Groups(Step)
        /\ DOMAIN list = 1..Len(list) /\ Len(list) \in Nat
    BY <1>3
  <2>2. lists \in [1..Len(list) -> Seq(V)] /\ \A i \in DOMAIN list : lists[i] = F[list[i]]
    BY <1>2, <2>1
  <2>3. StepFiles = FlattenSeq(lists)
    BY DEF StepFiles
  <2> QED
    BY <2>1, <2>2, <2>3
<1>5. \A g \in Groups(Step) : F[g] = GroupFiles(g)
  OBVIOUS
<1> HIDE DEF F, list, lists
<1>6. /\ StepFiles \in Seq(V)
      /\ \A f : f \in ToSet(StepFiles) <=> \E g \in Groups(Step) : f \in ToSet(F[g])
  <2>1. Maps(lists, list, F, Groups(Step), V)
    BY <1>2, <1>3, <1>4 DEF Maps
  <2> QED
    BY <1>3, <1>4, <2>1, FlattenMap
<1>7. \A g \in Groups(Step) : \A f : f \in ToSet(F[g]) <=>
         \E o \in Options(g) : f \in ToSet(o.files) /\ InstallsIn(job, Step, g, o, f, flags)
  BY <1>1, <1>5, GroupOffers
<1>8. \A f : f \in OffersIn(job, Step, flags) <=>
         \E g \in Groups(Step) : \E o \in Options(g) :
             f \in ToSet(o.files) /\ InstallsIn(job, Step, g, o, f, flags)
  BY DEF OffersIn
<1>9. \A f : f \in ToSet(StepFiles) <=> f \in OffersIn(job, Step, flags)
  BY <1>6, <1>7, <1>8
<1> QED
  BY <1>6, <1>9 DEF V

\* The conditional files are those whose condition the flags meet.
LEMMA ConditionalOffers ==
    ASSUME job \in Installers
    PROVE  /\ ConditionalFiles \in Seq(DirectivesIn(job))
           /\ ToSet(ConditionalFiles) = ConditionalIn(job, flags)
<1> DEFINE V == DirectivesIn(job)
           S == ToSet(job.conditional)
           F == [c \in S |-> IF Matches(c.when, flags) THEN c.files ELSE <<>>]
           list == job.conditional
           lists == [i \in DOMAIN list |->
                       IF Matches(list[i].when, flags) THEN list[i].files ELSE <<>>]
<1>1. list \in Seq(S) /\ \A c \in S : c.files \in Seq(V)
  BY InstallerParts
<1> HIDE DEF V, S
<1>2. F \in [S -> Seq(V)]
  BY <1>1
<1>3. /\ lists \in Seq(Seq(V)) /\ DOMAIN lists = DOMAIN list
      /\ \A i \in DOMAIN list : lists[i] = F[list[i]]
      /\ ConditionalFiles = FlattenSeq(lists)
  <2>1. /\ \A i \in DOMAIN list : list[i] \in S
        /\ DOMAIN list = 1..Len(list) /\ Len(list) \in Nat
    BY <1>1
  <2>2. lists \in [1..Len(list) -> Seq(V)] /\ \A i \in DOMAIN list : lists[i] = F[list[i]]
    BY <1>1, <1>2, <2>1
  <2>3. ConditionalFiles = FlattenSeq(lists)
    BY DEF ConditionalFiles
  <2> QED
    BY <2>1, <2>2, <2>3
<1>4. \A c \in S : F[c] = IF Matches(c.when, flags) THEN c.files ELSE <<>>
  OBVIOUS
<1> HIDE DEF F, lists, list
<1>5. /\ ConditionalFiles \in Seq(V)
      /\ \A f : f \in ToSet(ConditionalFiles) <=> \E c \in ToSet(list) : f \in ToSet(F[c])
  <2>1. Maps(lists, list, F, S, V)
    BY <1>1, <1>2, <1>3 DEF Maps
  <2> QED
    BY <1>3, <2>1, FlattenMap
<1>6. \A c \in S : \A f : f \in ToSet(F[c]) <=> Matches(c.when, flags) /\ f \in ToSet(c.files)
  <2>1. ToSet(<<>>) = {}
    BY DEF ToSet
  <2> QED
    BY <1>4, <2>1
<1>7. \A f : f \in ConditionalIn(job, flags) <=> \E c \in S : Matches(c.when, flags) /\ f \in ToSet(c.files)
  BY DEF ConditionalIn, S
<1>8. \A f : f \in ToSet(ConditionalFiles) <=> f \in ConditionalIn(job, flags)
  BY <1>5, <1>6, <1>7 DEF S, list
<1> QED
  BY <1>5, <1>8 DEF V

-----------------------------------------------------------------------------
(* The queue.                                                              *)

\* The queue q has what is chosen of the parts 0..n of an installer, and nothing
\* else; from says of which part each directive is.
QueueOf(from, q, J, c, n) ==
    /\ from \in [1..Len(q) -> 0..n]
    /\ \A i \in 1..Len(q) : q[i] \in ChosenIn(J, c, from[i])
    /\ \A k \in 0..n : \A f \in ChosenIn(J, c, k) : \E i \in 1..Len(q) : from[i] = k /\ q[i] = f

\* One part after the other.
Queued(q, J, c, n) ==
    \E from : /\ QueueOf(from, q, J, c, n)
              /\ \A i, j \in 1..Len(q) : i < j => from[i] <= from[j]

\* By priority, and of equal ones one part after the other.
Ranked(from, q) ==
    \A i, j \in 1..Len(q) : i < j =>
        \/ q[i].priority < q[j].priority
        \/ q[i].priority = q[j].priority /\ from[i] <= from[j]

QueuedByRank(q, J, c, n) == \E from : QueueOf(from, q, J, c, n) /\ Ranked(from, q)

\* The next part goes behind the parts before it.
LEMMA QueueGrows ==
    ASSUME NEW V, NEW q \in Seq(V), NEW r \in Seq(V), NEW n \in Nat, NEW J, NEW c, NEW d,
           Queued(q, J, c, n), \A k \in 0..n : ChosenIn(J, d, k) = ChosenIn(J, c, k),
           ChosenIn(J, d, n + 1) = ToSet(r)
    PROVE  q \o r \in Seq(V) /\ Queued(q \o r, J, d, n + 1)
<1> DEFINE t == q \o r
           top == Len(q)
<1>1. /\ top \in Nat /\ Len(r) \in Nat /\ DOMAIN r = 1..Len(r)
      /\ t \in Seq(V) /\ Len(t) = top + Len(r)
      /\ \A k \in 1..Len(t) : t[k] = IF k <= top THEN q[k] ELSE r[k - top]
  BY ConcatProperties
<1>2. PICK from : /\ QueueOf(from, q, J, c, n)
                  /\ \A i, j \in 1..top : i < j => from[i] <= from[j]
  BY DEF Queued
<1> HIDE DEF t, top
<1> DEFINE more == [k \in 1..Len(t) |-> IF k <= top THEN from[k] ELSE n + 1]
<1>3. \A k \in 1..Len(t) : /\ k \in Nat
                           /\ k <= top => k \in 1..top
                           /\ k > top => k - top \in 1..Len(r)
  BY <1>1
<1>4. /\ \A k \in 1..top : k \in 1..Len(t) /\ t[k] = q[k] /\ more[k] = from[k]
      /\ \A i \in 1..Len(r) : top + i \in 1..Len(t) /\ t[top + i] = r[i] /\ more[top + i] = n + 1
  <2>1. \A k \in 1..top : k \in 1..Len(t) /\ k <= top
    BY <1>1
  <2>2. \A i \in 1..Len(r) : top + i \in 1..Len(t) /\ ~(top + i <= top) /\ (top + i) - top = i
    BY <1>1
  <2> QED
    BY <1>1, <2>1, <2>2
<1>5. \A k \in 1..top : from[k] \in 0..n /\ from[k] \in 0..(n + 1) /\ from[k] <= n + 1
  <2>1. from \in [1..top -> 0..n]
    BY <1>2 DEF QueueOf, top
  <2>2. \A m \in 0..n : m \in 0..(n + 1) /\ m <= n + 1
    OBVIOUS
  <2> QED
    BY <2>1, <2>2
<1>6. more \in [1..Len(t) -> 0..(n + 1)]
  BY <1>3, <1>5
<1> HIDE DEF more
<1>7. \A k \in 1..Len(t) :
         \/ k \in 1..top /\ t[k] = q[k] /\ more[k] = from[k]
         \/ k - top \in 1..Len(r) /\ t[k] = r[k - top] /\ more[k] = n + 1 /\ k > top
  <2> SUFFICES ASSUME NEW k \in 1..Len(t)
               PROVE  \/ k \in 1..top /\ t[k] = q[k] /\ more[k] = from[k]
                      \/ k - top \in 1..Len(r) /\ t[k] = r[k - top] /\ more[k] = n + 1 /\ k > top
    OBVIOUS
  <2>1. k <= top \/ k > top
    BY <1>1
  <2>2. k > top => ~(k <= top)
    BY <1>1
  <2> QED
    BY <1>1, <1>3, <1>4, <2>1, <2>2 DEF more
<1>8. ASSUME NEW k \in 1..Len(t), NEW l \in 1..Len(t), k < l PROVE more[k] <= more[l]
  <2>1. CASE l \in 1..top
    <3>1. k \in 1..top
      BY <1>1, <1>3, <1>8, <2>1
    <3> QED
      BY <1>2, <1>4, <1>8, <2>1, <3>1
  <2>2. CASE more[l] = n + 1
    <3>1. more[k] \in 0..(n + 1)
      BY <1>6
    <3> QED
      BY <2>2, <3>1
  <2> QED
    BY <1>7, <2>1, <2>2
<1>9. ASSUME NEW k \in 1..Len(t) PROVE t[k] \in ChosenIn(J, d, more[k])
  <2>1. CASE k \in 1..top /\ t[k] = q[k] /\ more[k] = from[k]
    <3>1. from[k] \in 0..n /\ q[k] \in ChosenIn(J, c, from[k])
      BY <1>2, <1>5, <2>1 DEF QueueOf, top
    <3> QED
      BY <2>1, <3>1
  <2>2. CASE k - top \in 1..Len(r) /\ t[k] = r[k - top] /\ more[k] = n + 1
    <3>1. r[k - top] \in ToSet(r)
      BY <1>1, <2>2 DEF ToSet
    <3> QED
      BY <2>2, <3>1
  <2> QED
    BY <1>7, <2>1, <2>2
<1>10. ASSUME NEW k \in 0..(n + 1), NEW f \in ChosenIn(J, d, k)
       PROVE  \E i \in 1..Len(t) : more[i] = k /\ t[i] = f
  <2>1. CASE k \in 0..n
    <3>1. PICK i \in 1..top : from[i] = k /\ q[i] = f
      BY <1>2, <2>1 DEF QueueOf, top
    <3> QED
      BY <1>4, <3>1
  <2>2. CASE k = n + 1
    <3>1. PICK i \in 1..Len(r) : f = r[i]
      BY <1>1, <2>2 DEF ToSet
    <3> QED
      BY <1>4, <2>2, <3>1
  <2> QED
    BY <2>1, <2>2
<1>11. QueueOf(more, t, J, d, n + 1)
  BY <1>6, <1>9, <1>10 DEF QueueOf
<1> QED
  BY <1>1, <1>8, <1>11 DEF Queued, t

\* Sorted by priority, the queue keeps the order of its parts where priorities are equal.
LEMMA SortRanks ==
    ASSUME NEW V, \A f \in V : f.priority \in Int, NEW q \in Seq(V), NEW n \in Nat, NEW J, NEW c,
           Queued(q, J, c, n)
    PROVE  ByPriority(q) \in Seq(V) /\ QueuedByRank(ByPriority(q), J, c, n)
<1> DEFINE key == [i \in DOMAIN q |-> q[i].priority]
           t == ByPriority(q)
           top == Len(q)
<1>1. /\ top \in Nat /\ DOMAIN q = 1..top
      /\ \A i \in 1..top : q[i] \in V /\ q[i].priority \in Int
      /\ key \in [1..top -> Int] /\ \A i \in 1..top : key[i] = q[i].priority
  OBVIOUS
<1>2. t = StableSort(q, key)
  BY DEF ByPriority
<1>3. PICK from : /\ QueueOf(from, q, J, c, n)
                  /\ \A i, j \in 1..top : i < j => from[i] <= from[j]
  BY DEF Queued
<1> HIDE DEF t, key
<1>4. PICK p : SortedFrom(p, t, q, key)
  BY <1>1, <1>2, SortIsStable
<1>5. /\ DOMAIN t = 1..top /\ p \in [1..top -> 1..top]
      /\ \A k \in 1..top : p[k] \in 1..top /\ t[k] = q[p[k]]
      /\ \A i \in 1..top : \E k \in 1..top : p[k] = i
      /\ \A k, l \in 1..top : k < l => Goes(key, p[k], p[l])
  BY <1>4 DEF SortedFrom
<1> HIDE DEF top
<1>6. t \in Seq(V) /\ Len(t) = top
  <2>1. t = [k \in 1..top |-> t[k]]
    BY <1>2, <1>5 DEF StableSort
  <2>2. t \in [1..top -> V]
    BY <1>1, <1>5, <2>1
  <2> QED
    BY <1>1, <2>2
<1> DEFINE part == [k \in 1..top |-> from[p[k]]]
<1>7. from \in [1..top -> 0..n] /\ part \in [1..top -> 0..n] /\ \A k \in 1..top : part[k] = from[p[k]]
  BY <1>3, <1>5 DEF QueueOf, top
<1> HIDE DEF part
<1>8. \A k \in 1..top : t[k] \in ChosenIn(J, c, part[k])
  BY <1>3, <1>5, <1>7 DEF QueueOf, top
<1>9. ASSUME NEW k \in 0..n, NEW f \in ChosenIn(J, c, k)
      PROVE  \E i \in 1..top : part[i] = k /\ t[i] = f
  <2>1. PICK j \in 1..top : from[j] = k /\ q[j] = f
    BY <1>3 DEF QueueOf, top
  <2>2. PICK i \in 1..top : p[i] = j
    BY <1>5
  <2> QED
    BY <1>5, <1>7, <2>1, <2>2
<1>10. ASSUME NEW k \in 1..top, NEW l \in 1..top, k < l
       PROVE  \/ t[k].priority < t[l].priority
              \/ t[k].priority = t[l].priority /\ part[k] <= part[l]
  <2>1. /\ p[k] \in 1..top /\ p[l] \in 1..top /\ Goes(key, p[k], p[l])
        /\ key[p[k]] = t[k].priority /\ key[p[l]] = t[l].priority
    BY <1>1, <1>5, <1>10
  <2>2. p[k] < p[l] => part[k] <= part[l]
    BY <1>3, <1>7, <2>1
  <2> QED
    BY <2>1, <2>2 DEF Goes
<1>11. QueueOf(part, t, J, c, n) /\ Ranked(part, t)
  BY <1>6, <1>7, <1>8, <1>9, <1>10 DEF QueueOf, Ranked
<1> QED
  BY <1>6, <1>11 DEF QueuedByRank, t

-----------------------------------------------------------------------------
(* The installer's invariant.                                              *)

OutputOf(q) == FlattenSeq([i \in DOMAIN q |-> q[i].entries])

\* Of the steps before m the selections of exactly those are used that the flags
\* before them show.
Used(J, c, m) ==
    \A k \in DOMAIN StepsIn(J) : \A g \in Groups(StepsIn(J)[k]) :
        Key(StepsIn(J)[k], g) \in c <=> k < m /\ Matches(StepsIn(J)[k].visible, BeforeIn(J, c, k))

\* Each path has what the last of the first n entries for it puts there.
Placed(t, out, n) ==
    \A p \in Paths :
        \/ (\A i \in 1..n : out[i].to # p) /\ t[p] \in {None, Dir}
        \/ \E i \in 1..n : /\ out[i].to = p /\ t[p] = out[i].is
                           /\ \A j \in 1..n : out[j].to = p => j <= i

Asking ==
    /\ at <= Len(StepsIn(job)) + 1
    /\ flags = BeforeIn(job, consumed, at)
    /\ Used(job, consumed, at)
    /\ files \in Seq(DirectivesIn(job)) /\ Queued(files, job, consumed, at - 1)
    /\ \A p \in Paths : tree[p] = None

Asked ==
    /\ Used(job, consumed, Len(StepsIn(job)) + 1)
    /\ files \in Seq(DirectivesIn(job))
    /\ QueuedByRank(files, job, consumed, Len(StepsIn(job)) + 1)

InstallerSound ==
    job # NoInstaller =>
        /\ job \in Installers /\ at \in Nat \ {0}
        /\ phase = "steps" => Asking
        /\ phase \in {"write", "done"} => Asked
        /\ phase = "write" => at <= Len(OutputOf(files)) + 1 /\ Placed(tree, OutputOf(files), at - 1)
        /\ phase = "done" /\ act = NoAct => Placed(tree, OutputOf(files), Len(OutputOf(files)))

\* Which steps were shown, by what is used.
LEMMA UsedShown ==
    ASSUME NEW J, NEW c, NEW m, Used(J, c, m), NEW k \in DOMAIN StepsIn(J)
    PROVE  ShownIn(J, c, k) <=>
              /\ Groups(StepsIn(J)[k]) # {} /\ k < m
              /\ Matches(StepsIn(J)[k].visible, BeforeIn(J, c, k))
BY DEF Used, ShownIn

\* The steps of an installer, by number.
LEMMA StepNumbers ==
    ASSUME NEW J \in Installers
    PROVE  /\ Len(StepsIn(J)) \in Nat /\ DOMAIN StepsIn(J) = 1..Len(StepsIn(J))
           /\ DOMAIN StepsIn(J) \subseteq Nat \ {0}
           /\ \A k \in DOMAIN StepsIn(J) : StepsIn(J)[k] \in ToSet(J.steps.items)
BY InstallerParts

\* An installer begins with what it always installs.
LEMMA InstallerBegins ==
    ASSUME FomodInit
    PROVE  InstallerSound
<1> SUFFICES ASSUME phase = "steps" PROVE Asking
  BY DEF FomodInit, InstallerSound
<1>1. /\ job \in Installers /\ at = 1 /\ files = job.required /\ consumed = {}
      /\ flags = [f \in Flags |-> None] /\ \A p \in Paths : tree[p] = None
  BY DEF FomodInit
<1>2. /\ Len(StepsIn(job)) \in Nat /\ DOMAIN StepsIn(job) \subseteq Nat \ {0}
  BY <1>1, StepNumbers
<1>3. flags = BeforeIn(job, consumed, at)
  BY <1>1, <1>2, BeforeFirst
<1>4. Used(job, consumed, at)
  BY <1>1, <1>2 DEF Used
<1>5. files \in Seq(DirectivesIn(job))
  BY <1>1, InstallerParts
<1>6. Queued(files, job, consumed, 0)
  <2> DEFINE from == [i \in 1..Len(files) |-> 0]
  <2>1. Len(files) \in Nat /\ DOMAIN files = 1..Len(files)
    BY <1>5
  <2>2. ChosenIn(job, consumed, 0) = ToSet(files)
    BY <1>1 DEF ChosenIn
  <2>3. from \in [1..Len(files) -> 0..0] /\ \A i \in 1..Len(files) : from[i] = 0
    OBVIOUS
  <2> HIDE DEF from
  <2>4. \A k \in 0..0 : k = 0
    OBVIOUS
  <2>5. QueueOf(from, files, job, consumed, 0)
    BY <2>1, <2>2, <2>3, <2>4 DEF QueueOf, ToSet
  <2>6. \A i, j \in 1..Len(files) : i < j => from[i] <= from[j]
    BY <2>3
  <2> QED
    BY <2>5, <2>6 DEF Queued
<1> QED
  BY <1>1, <1>2, <1>3, <1>4, <1>5, <1>6 DEF Asking

\* A hidden step sets nothing and adds nothing.
LEMMA HiddenSound ==
    ASSUME InstallerSound, job # NoInstaller, Hidden
    PROVE  InstallerSound'
<1>1. /\ phase = "steps" /\ at <= Len(Steps) /\ ~Matches(Step.visible, flags) /\ at' = at + 1
      /\ job' = job /\ phase' = phase /\ flags' = flags /\ files' = files
      /\ consumed' = consumed /\ tree' = tree
  BY DEF Hidden
<1>2. job \in Installers /\ at \in Nat \ {0} /\ Asking
  BY <1>1 DEF InstallerSound
<1>3. /\ Steps = StepsIn(job) /\ Step = StepsIn(job)[at]
      /\ Len(Steps) \in Nat /\ DOMAIN Steps = 1..Len(Steps) /\ at \in DOMAIN Steps
  BY <1>1, <1>2, InJob, StepNumbers DEF Step
<1>4. ~ShownIn(job, consumed, at)
  BY <1>2, <1>3, UsedShown DEF Asking
<1>5. flags = BeforeIn(job, consumed, at + 1)
  <2>1. BeforeIn(job, consumed, at + 1) =
           [f \in Flags |-> BeforeIn(job, consumed, at)[f]]
    <3>1. DOMAIN StepsIn(job) \subseteq Nat /\ at \in DOMAIN StepsIn(job)
      BY <1>2, <1>3
    <3>2. BeforeIn(job, consumed, at + 1) =
             [f \in Flags |->
                 IF ShownIn(job, consumed, at) /\ \E s \in SetByIn(job, StepsIn(job)[at]) : s[1] = f
                 THEN ValueIn(job, at, f) ELSE BeforeIn(job, consumed, at)[f]]
      BY <3>1, BeforeNext
    <3> QED
      BY <1>4, <3>2
  <2>2. BeforeIn(job, consumed, at) = [f \in Flags |-> BeforeIn(job, consumed, at)[f]]
    BY DEF BeforeIn
  <2> QED
    BY <1>2, <2>1, <2>2 DEF Asking
<1>6. Used(job, consumed, at + 1)
  <2> SUFFICES ASSUME NEW k \in DOMAIN Steps, NEW g \in Groups(Steps[k])
               PROVE  Key(Steps[k], g) \in consumed <=>
                         k < at + 1 /\ Matches(Steps[k].visible, BeforeIn(job, consumed, k))
    BY <1>3 DEF Used
  <2>1. Key(Steps[k], g) \in consumed <=>
           k < at /\ Matches(Steps[k].visible, BeforeIn(job, consumed, k))
    BY <1>2, <1>3 DEF Asking, Used
  <2>2. k \in Nat /\ (k < at + 1 <=> k < at \/ k = at)
    BY <1>2, <1>3
  <2>3. k = at => ~Matches(Steps[k].visible, BeforeIn(job, consumed, k))
    BY <1>1, <1>2, <1>3 DEF Asking
  <2> QED
    BY <2>1, <2>2, <2>3
<1>7. Queued(files, job, consumed, at)
  <2>1. ChosenIn(job, consumed, (at - 1) + 1) = ToSet(<<>>)
    <3>1. ToSet(<<>>) = {} /\ (at - 1) + 1 = at /\ at # 0 /\ ~(at > Len(StepsIn(job)))
      BY <1>1, <1>2, <1>3 DEF ToSet
    <3> QED
      BY <1>4, <3>1 DEF ChosenIn
  <2>2. /\ files \in Seq(DirectivesIn(job)) /\ <<>> \in Seq(DirectivesIn(job))
        /\ files \o <<>> = files
    BY <1>2 DEF Asking
  <2>3. at - 1 \in Nat /\ (at - 1) + 1 = at /\ Queued(files, job, consumed, at - 1)
    BY <1>2 DEF Asking
  <2>4. Queued(files \o <<>>, job, consumed, (at - 1) + 1)
    BY <2>1, <2>2, <2>3, QueueGrows
  <2> QED
    BY <2>2, <2>3, <2>4
<1>8. at' \in Nat \ {0} /\ at' <= Len(StepsIn(job)) + 1 /\ at' - 1 = at
  BY <1>1, <1>2, <1>3
<1>9. Asking'
  BY <1>1, <1>2, <1>5, <1>6, <1>7, <1>8 DEF Asking
<1> QED
  BY <1>1, <1>2, <1>8, <1>9 DEF InstallerSound

\* Every entry that is put is one of a directive.
LEMMA OutputListed ==
    ASSUME NEW J \in Installers, NEW q \in Seq(DirectivesIn(J))
    PROVE  /\ Len(OutputOf(q)) \in Nat /\ DOMAIN OutputOf(q) = 1..Len(OutputOf(q))
           /\ \A i \in 1..Len(OutputOf(q)) : OutputOf(q)[i].is # None
           /\ Joined(OutputOf(q), [i \in DOMAIN q |-> q[i].entries], Len(q))
<1> DEFINE lists == [i \in DOMAIN q |-> q[i].entries]
           E == UNION {ToSet(f.entries) : f \in DirectivesIn(J)}
<1>1. \A f \in DirectivesIn(J) : f.entries \in Seq(ToSet(f.entries)) /\ \A e \in ToSet(f.entries) : e.is # None
  BY InstallerParts
<1>2. \A f \in DirectivesIn(J) : f.entries \in Seq(E)
  BY <1>1
<1>3. \A e \in E : e.is # None
  BY <1>1
<1>4. Len(q) \in Nat /\ DOMAIN q = 1..Len(q) /\ \A i \in DOMAIN q : q[i] \in DirectivesIn(J)
  OBVIOUS
<1> HIDE DEF E
<1>5. lists \in Seq(Seq(E)) /\ Len(lists) = Len(q)
  <2>1. lists \in [1..Len(q) -> Seq(E)]
    BY <1>2, <1>4
  <2> QED
    BY <1>4, <2>1
<1>6. OutputOf(q) = FlattenSeq(lists)
  BY DEF OutputOf
<1> HIDE DEF lists
<1>7. OutputOf(q) \in Seq(E) /\ Joined(OutputOf(q), lists, Len(q))
  BY <1>5, <1>6, FlattenJoins
<1> QED
  BY <1>3, <1>7 DEF lists

\* Which selections a step that is shown uses, with the flags before it.
Uses(J, c, d, k) ==
    /\ k \in DOMAIN StepsIn(J) /\ Used(J, c, k)
    /\ Matches(StepsIn(J)[k].visible, BeforeIn(J, c, k))
    /\ d = c \cup {Key(StepsIn(J)[k], g) : g \in Groups(StepsIn(J)[k])}

\* They are the step's own: no other step was shown by them, and the flags and what
\* was chosen so far stay.
LEMMA UsesOwn ==
    ASSUME NEW J \in Installers, NEW c, NEW d, NEW k, Uses(J, c, d, k)
    PROVE  /\ \A j \in DOMAIN StepsIn(J) : \A g \in Groups(StepsIn(J)[j]) :
                 Key(StepsIn(J)[j], g) \in d <=> Key(StepsIn(J)[j], g) \in c \/ j = k
           /\ \A j \in DOMAIN StepsIn(J) : j < k => (ShownIn(J, c, j) <=> ShownIn(J, d, j))
           /\ \A j \in 0..k : BeforeIn(J, d, j) = BeforeIn(J, c, j)
           /\ \A j \in 0..(k - 1) : ChosenIn(J, d, j) = ChosenIn(J, c, j)
           /\ ShownIn(J, d, k) <=> Groups(StepsIn(J)[k]) # {}
<1>1. /\ k \in DOMAIN StepsIn(J) /\ DOMAIN StepsIn(J) = 1..Len(StepsIn(J)) /\ Len(StepsIn(J)) \in Nat
      /\ k \in Nat /\ Used(J, c, k)
      /\ d = c \cup {Key(StepsIn(J)[k], g) : g \in Groups(StepsIn(J)[k])}
      /\ \A j, l \in DOMAIN StepsIn(J) : StepsIn(J)[j].name = StepsIn(J)[l].name => j = l
  BY StepNumbers, InstallerParts DEF Uses
<1>2. \A j \in DOMAIN StepsIn(J) : \A g, h : Key(StepsIn(J)[j], g) = Key(StepsIn(J)[k], h) => j = k
  BY <1>1 DEF Key
<1>3. \A j \in DOMAIN StepsIn(J) : \A g \in Groups(StepsIn(J)[j]) :
         Key(StepsIn(J)[j], g) \in d <=> Key(StepsIn(J)[j], g) \in c \/ j = k
  BY <1>1, <1>2
<1>4. \A j \in DOMAIN StepsIn(J) : j < k => (ShownIn(J, c, j) <=> ShownIn(J, d, j))
  <2> SUFFICES ASSUME NEW j \in DOMAIN StepsIn(J), j < k
               PROVE  ShownIn(J, c, j) <=> ShownIn(J, d, j)
    OBVIOUS
  <2>1. j # k
    BY <1>1
  <2> QED
    BY <1>3, <2>1 DEF ShownIn
<1>5. ASSUME NEW j \in 0..k PROVE BeforeIn(J, d, j) = BeforeIn(J, c, j)
  <2>1. j \in Int /\ \A l \in DOMAIN StepsIn(J) : l < j => l < k
    BY <1>1
  <2> QED
    BY <1>4, <2>1, BeforeSame
<1>6. ASSUME NEW j \in 0..(k - 1) PROVE ChosenIn(J, d, j) = ChosenIn(J, c, j)
  <2>1. /\ j \in Int /\ j < k /\ (j = 0 \/ j \in DOMAIN StepsIn(J))
        /\ \A l \in DOMAIN StepsIn(J) : l < j => l < k
    BY <1>1
  <2>2. CASE j = 0
    BY <2>2 DEF ChosenIn
  <2>3. CASE j \in DOMAIN StepsIn(J)
    <3>1. \A l \in DOMAIN StepsIn(J) : l < j => (ShownIn(J, d, l) <=> ShownIn(J, c, l))
      BY <1>4, <2>1
    <3>2. ShownIn(J, d, j) <=> ShownIn(J, c, j)
      BY <1>4, <2>1, <2>3
    <3>3. j \in Int
      BY <2>1
    <3> QED
      BY <3>1, <3>2, <3>3, ChosenSame
  <2> QED
    BY <2>1, <2>2, <2>3
<1>7. ShownIn(J, d, k) <=> Groups(StepsIn(J)[k]) # {}
  BY <1>1, <1>3 DEF ShownIn
<1> QED
  BY <1>3, <1>4, <1>5, <1>6, <1>7

\* A step that is shown uses its selections, sets its flags and queues its files.
LEMMA RunStepSound ==
    ASSUME InstallerSound, job # NoInstaller, RunStep
    PROVE  InstallerSound'
<1>1. /\ phase = "steps" /\ at <= Len(Steps) /\ Matches(Step.visible, flags)
      /\ job' = job /\ tree' = tree
  BY DEF RunStep, Refuse
<1>2. job \in Installers /\ at \in Nat \ {0} /\ Asking
  BY <1>1 DEF InstallerSound
<1>3. CASE Refuse
  BY <1>2, <1>3 DEF Refuse, InstallerSound
<1>4. CASE ~Refuse
  <2>1. /\ at' = at + 1 /\ phase' = phase /\ files' = files \o StepFiles
        /\ consumed' = consumed \cup {Key(Step, g) : g \in Groups(Step)}
        /\ flags' = [f \in Flags |->
                       IF \E s \in SetBy(Step) : s[1] = f
                       THEN (CHOOSE s \in SetBy(Step) : s[1] = f)[2] ELSE flags[f]]
    BY <1>4 DEF RunStep
  <2>2. /\ Steps = StepsIn(job) /\ Step = StepsIn(job)[at]
        /\ Len(StepsIn(job)) \in Nat /\ DOMAIN StepsIn(job) = 1..Len(StepsIn(job))
        /\ at \in DOMAIN StepsIn(job) /\ DOMAIN StepsIn(job) \subseteq Nat
        /\ Step \in ToSet(job.steps.items)
    BY <1>1, <1>2, InJob, StepNumbers DEF Step
  <2>3. Uses(job, consumed, consumed', at)
    BY <1>1, <1>2, <2>1, <2>2 DEF Uses, Asking
  <2>4. /\ \A j \in DOMAIN StepsIn(job) : \A g \in Groups(StepsIn(job)[j]) :
              Key(StepsIn(job)[j], g) \in consumed' <=> Key(StepsIn(job)[j], g) \in consumed \/ j = at
        /\ \A j \in 0..at : BeforeIn(job, consumed', j) = BeforeIn(job, consumed, j)
        /\ \A j \in 0..(at - 1) : ChosenIn(job, consumed', j) = ChosenIn(job, consumed, j)
        /\ ShownIn(job, consumed', at) <=> Groups(StepsIn(job)[at]) # {}
    BY <1>2, <2>3, UsesOwn
  <2>5. flags = BeforeIn(job, consumed', at)
    BY <1>2, <2>4 DEF Asking
  <2>6. flags' = BeforeIn(job, consumed', at + 1)
    <3>1. BeforeIn(job, consumed', at + 1) =
             [f \in Flags |->
                 IF ShownIn(job, consumed', at) /\ \E s \in SetByIn(job, StepsIn(job)[at]) : s[1] = f
                 THEN ValueIn(job, at, f) ELSE BeforeIn(job, consumed', at)[f]]
      <4>1. DOMAIN StepsIn(job) \subseteq Nat /\ at \in DOMAIN StepsIn(job)
        BY <2>2
      <4> QED
        BY <4>1, BeforeNext
    <3>2. SetBy(Step) = SetByIn(job, StepsIn(job)[at])
      BY <2>2, InJob
    <3>3. \A f : (CHOOSE s \in SetBy(Step) : s[1] = f)[2] = ValueIn(job, at, f)
      BY <3>2 DEF ValueIn
    <3>4. SetBy(Step) # {} => ShownIn(job, consumed', at)
      BY <2>2, <2>4, <3>2 DEF SetByIn
    <3>5. \A f \in Flags :
             (ShownIn(job, consumed', at) /\ \E s \in SetByIn(job, StepsIn(job)[at]) : s[1] = f)
                <=> \E s \in SetBy(Step) : s[1] = f
      BY <3>2, <3>4
    <3>6. ASSUME NEW f \in Flags
          PROVE  (IF ShownIn(job, consumed', at) /\ \E s \in SetByIn(job, StepsIn(job)[at]) : s[1] = f
                  THEN ValueIn(job, at, f) ELSE BeforeIn(job, consumed', at)[f]) =
                 (IF \E s \in SetBy(Step) : s[1] = f
                  THEN (CHOOSE s \in SetBy(Step) : s[1] = f)[2] ELSE flags[f])
      BY <2>5, <3>3, <3>5
    <3>7. flags' = [f \in Flags |->
                       IF \E s \in SetBy(Step) : s[1] = f
                       THEN (CHOOSE s \in SetBy(Step) : s[1] = f)[2] ELSE flags[f]]
      BY <2>1
    <3> QED
      BY <3>1, <3>6, <3>7
  <2>7. Used(job, consumed', at + 1)
    <3> SUFFICES ASSUME NEW k \in DOMAIN StepsIn(job), NEW g \in Groups(StepsIn(job)[k])
                 PROVE  Key(StepsIn(job)[k], g) \in consumed' <=>
                           k < at + 1 /\ Matches(StepsIn(job)[k].visible, BeforeIn(job, consumed', k))
      BY DEF Used
    <3>1. Key(StepsIn(job)[k], g) \in consumed <=>
             k < at /\ Matches(StepsIn(job)[k].visible, BeforeIn(job, consumed, k))
      BY <1>2 DEF Asking, Used
    <3>2. /\ k \in Nat /\ (k < at + 1 <=> k < at \/ k = at) /\ (k = at => ~(k < at))
          /\ (k < at \/ k = at => k \in 0..at)
      BY <1>2, <2>2
    <3>3. k = at => Matches(StepsIn(job)[k].visible, BeforeIn(job, consumed', k))
      BY <1>1, <2>2, <2>5
    <3> QED
      BY <2>4, <3>1, <3>2, <3>3
  <2>8. files' \in Seq(DirectivesIn(job)) /\ Queued(files', job, consumed', at)
    <3>1. StepFiles \in Seq(DirectivesIn(job)) /\ ToSet(StepFiles) = OffersIn(job, Step, flags)
      BY <1>2, <2>2, StepOffers
    <3>2. ChosenIn(job, consumed', at) = ToSet(StepFiles)
      <4>1. at # 0 /\ ~(at > Len(StepsIn(job)))
        BY <1>2, <2>2
      <4>2. ~ShownIn(job, consumed', at) => OffersIn(job, Step, flags) = {}
        BY <2>2, <2>4 DEF OffersIn
      <4> QED
        BY <2>2, <2>5, <3>1, <4>1, <4>2 DEF ChosenIn
    <3>3. /\ files \in Seq(DirectivesIn(job)) /\ at - 1 \in Nat /\ (at - 1) + 1 = at
          /\ Queued(files, job, consumed, at - 1)
      BY <1>2 DEF Asking
    <3>4. /\ files \o StepFiles \in Seq(DirectivesIn(job))
          /\ Queued(files \o StepFiles, job, consumed', (at - 1) + 1)
      BY <2>4, <3>1, <3>2, <3>3, QueueGrows
    <3> QED
      BY <2>1, <3>3, <3>4
  <2>9. at' \in Nat \ {0} /\ at' <= Len(StepsIn(job)) + 1 /\ at' - 1 = at
    <3>1. at' = at + 1 /\ at \in 1..Len(StepsIn(job)) /\ Len(StepsIn(job)) \in Nat
      BY <2>1, <2>2
    <3> QED
      BY <3>1
  <2>10. Asking'
    BY <1>1, <1>2, <2>1, <2>6, <2>7, <2>8, <2>9 DEF Asking
  <2> QED
    BY <1>1, <1>2, <2>1, <2>9, <2>10 DEF InstallerSound
<1> QED
  BY <1>3, <1>4

\* After the last step the conditional files join the queue, and it is sorted.
LEMMA ConditionalSound ==
    ASSUME InstallerSound, job # NoInstaller, Conditional
    PROVE  InstallerSound'
<1>1. /\ phase = "steps" /\ at > Len(Steps) /\ job' = job /\ consumed' = consumed /\ tree' = tree
  BY DEF Conditional, Refuse
<1>2. job \in Installers /\ at \in Nat \ {0} /\ Asking
  BY <1>1 DEF InstallerSound
<1>3. CASE Refuse
  BY <1>2, <1>3 DEF Refuse, InstallerSound
<1>4. CASE ~Refuse
  <2> DEFINE last == Len(StepsIn(job)) + 1
  <2>1. phase' = "write" /\ at' = 1 /\ files' = ByPriority(files \o ConditionalFiles)
    BY <1>4 DEF Conditional
  <2>2. Steps = StepsIn(job) /\ Len(StepsIn(job)) \in Nat
    BY <1>2, InJob, StepNumbers
  <2>3. last \in Nat /\ last > Len(StepsIn(job)) /\ last # 0 /\ last = at /\ last - 1 \in Nat
        /\ (last - 1) + 1 = last
    BY <1>1, <1>2, <2>2 DEF Asking
  <2> HIDE DEF last
  <2>4. /\ flags = BeforeIn(job, consumed, last) /\ Used(job, consumed, last)
        /\ files \in Seq(DirectivesIn(job)) /\ Queued(files, job, consumed, last - 1)
        /\ \A p \in Paths : tree[p] = None
    BY <1>2, <2>3 DEF Asking
  <2>5. /\ ConditionalFiles \in Seq(DirectivesIn(job))
        /\ ToSet(ConditionalFiles) = ConditionalIn(job, flags)
    BY <1>2, ConditionalOffers
  <2>6. ChosenIn(job, consumed, last) = ToSet(ConditionalFiles)
    BY <2>3, <2>4, <2>5 DEF ChosenIn
  <2>7. /\ files \o ConditionalFiles \in Seq(DirectivesIn(job))
        /\ Queued(files \o ConditionalFiles, job, consumed, (last - 1) + 1)
    BY <2>3, <2>4, <2>5, <2>6, QueueGrows
  <2>8. \A f \in DirectivesIn(job) : f.priority \in Int
    BY <1>2, InstallerParts
  <2>9. /\ files' \in Seq(DirectivesIn(job))
        /\ QueuedByRank(files', job, consumed, last)
    BY <2>1, <2>3, <2>7, <2>8, SortRanks
  <2>10. Asked'
    BY <1>1, <2>4, <2>9 DEF Asked, last
  <2>11. /\ Len(OutputOf(files')) \in Nat
    BY <1>2, <2>9, OutputListed
  <2>12. 1 <= Len(OutputOf(files')) + 1 /\ 1 - 1 = 0 /\ \A i \in 1..0 : FALSE
    BY <2>11
  <2>13. Placed(tree', OutputOf(files'), 1 - 1)
    BY <1>1, <2>4, <2>12 DEF Placed
  <2> QED
    BY <1>1, <1>2, <2>1, <2>10, <2>12, <2>13 DEF InstallerSound
<1> QED
  BY <1>3, <1>4

\* An entry is written over the earlier ones of its path.
LEMMA WriteSound ==
    ASSUME InstallerSound, job # NoInstaller, Write
    PROVE  InstallerSound'
<1>1. /\ phase = "write" /\ job' = job /\ files' = files /\ consumed' = consumed
      /\ at <= Len(Output) /\ Output[at].to \in Paths
  BY DEF Write, Refuse
<1>2. /\ job \in Installers /\ at \in Nat \ {0} /\ Asked
      /\ Placed(tree, OutputOf(files), at - 1)
  BY <1>1 DEF InstallerSound
<1>3. CASE Refuse
  BY <1>2, <1>3 DEF Refuse, InstallerSound
<1>4. CASE ~Refuse
  <2> DEFINE out == OutputOf(files)
  <2>1. phase' = phase /\ at' = at + 1 /\ ~Clashes(Output[at]) /\ tree' = Put(Output[at].to, Output[at].is)
    BY <1>4 DEF Write
  <2>2. Output = out
    BY DEF Output, OutputOf
  <2>3. /\ Len(out) \in Nat /\ \A i \in 1..Len(out) : out[i].is # None
    BY <1>2, OutputListed DEF Asked
  <2>4. /\ at \in 1..Len(out) /\ at \in Nat /\ at' - 1 = at /\ at' \in Nat \ {0}
        /\ at' <= Len(out) + 1
    BY <1>1, <1>2, <2>1, <2>2, <2>3
  <2>5. /\ tree' = Put(out[at].to, out[at].is) /\ ~Clashes(out[at]) /\ out[at].to \in Paths
        /\ Placed(tree, out, at - 1) /\ out[at].is # None
    BY <1>1, <1>2, <2>1, <2>2, <2>3, <2>4
  <2> HIDE DEF out
  <2>6. Placed(tree', out, at)
    <3> DEFINE to == out[at].to
    <3>1. ~Parent(to, to)
      BY DEF Parent, IsStrictPrefix
    <3>2. ASSUME NEW p \in Paths, p = to
          PROVE  \E i \in 1..at : /\ out[i].to = p /\ tree'[p] = out[i].is
                                 /\ \A j \in 1..at : out[j].to = p => j <= i
      <4>1. tree'[p] = out[at].is
        BY <2>5, <3>1, <3>2 DEF Put
      <4>2. at \in 1..at /\ \A j \in 1..at : j <= at
        BY <2>4
      <4> QED
        BY <3>2, <4>1, <4>2
    <3>3. ASSUME NEW p \in Paths, p # to
          PROVE  \/ (\A i \in 1..at : out[i].to # p) /\ tree'[p] \in {None, Dir}
                 \/ \E i \in 1..at : /\ out[i].to = p /\ tree'[p] = out[i].is
                                     /\ \A j \in 1..at : out[j].to = p => j <= i
      <4>1. \A i \in 1..at : i \in 1..(at - 1) \/ i = at
        BY <2>4
      <4>2. \A i \in 1..(at - 1) : i \in 1..at
        BY <2>4
      <4>3. tree'[p] = IF Parent(p, to) THEN Dir ELSE tree[p]
        BY <2>5, <3>3 DEF Put
      <4>4. Parent(p, to) => tree[p] \in {None, Dir}
        BY <2>5 DEF Clashes, Reachable, IsFile
      <4>5. CASE (\A i \in 1..(at - 1) : out[i].to # p) /\ tree[p] \in {None, Dir}
        BY <3>3, <4>1, <4>3, <4>5
      <4>6. CASE \E i \in 1..(at - 1) : /\ out[i].to = p /\ tree[p] = out[i].is
                                       /\ \A j \in 1..(at - 1) : out[j].to = p => j <= i
        <5>1. PICK i \in 1..(at - 1) : /\ out[i].to = p /\ tree[p] = out[i].is
                                      /\ \A j \in 1..(at - 1) : out[j].to = p => j <= i
          BY <4>6
        <5>2. out[i].is # None
          BY <2>3, <2>4, <5>1
        <5>3. tree'[p] = tree[p]
          BY <4>3, <4>4, <5>1, <5>2
        <5>4. \A j \in 1..at : out[j].to = p => j <= i
          BY <3>3, <4>1, <5>1
        <5> QED
          BY <4>2, <5>1, <5>3, <5>4
      <4> QED
        BY <2>5, <4>5, <4>6 DEF Placed
    <3> QED
      BY <3>2, <3>3 DEF Placed
  <2>7. Asked'
    BY <1>1, <1>2 DEF Asked
  <2> QED
    BY <1>1, <1>2, <2>1, <2>4, <2>6, <2>7 DEF InstallerSound, out
<1> QED
  BY <1>3, <1>4

\* With the last entry written the installer is done.
LEMMA FinishSound ==
    ASSUME InstallerSound, job # NoInstaller, Finish
    PROVE  InstallerSound'
<1>1. /\ phase = "write" /\ at > Len(OutputOf(files)) /\ phase' \in {"done", "refused"}
      /\ UNCHANGED <<job, at, flags, files, consumed, tree>>
  BY DEF Finish, Output, OutputOf
<1>2. /\ job \in Installers /\ at \in Nat \ {0} /\ Asked
      /\ at <= Len(OutputOf(files)) + 1 /\ Placed(tree, OutputOf(files), at - 1)
  BY <1>1 DEF InstallerSound
<1>3. Len(OutputOf(files)) \in Nat
  BY <1>2, OutputListed DEF Asked
<1>4. at - 1 = Len(OutputOf(files))
  BY <1>1, <1>2, <1>3
<1>5. Asked'
  BY <1>1, <1>2 DEF Asked
<1>6. Placed(tree', OutputOf(files'), Len(OutputOf(files')))
  BY <1>1, <1>2, <1>4 DEF Placed
<1> QED
  BY <1>1, <1>2, <1>5, <1>6 DEF InstallerSound

\* Every step of the installer keeps it sound.
LEMMA InstallerGoesOn ==
    ASSUME InstallerSound, FomodNext
    PROVE  InstallerSound'
<1>1. CASE job = NoInstaller
  BY <1>1 DEF FomodNext, Hidden, RunStep, Conditional, Write, Finish, Refuse, InstallerSound
<1>2. CASE job # NoInstaller
  BY <1>2, HiddenSound, RunStepSound, ConditionalSound, WriteSound, FinishSound DEF FomodNext
<1> QED
  BY <1>1, <1>2

\* An operation has begun when the stage it is to change is no longer the installer's.
LEMMA OperationBegins ==
    ASSUME todo # {} => act # NoAct, LayoutNext
    PROVE  /\ todo' # {} => act' # NoAct
           /\ act' = NoAct => act = NoAct /\ tree' = tree
<1>1. ASSUME NEW kind \in {"remove", "move", "copy", "patch", "restore"}, NEW src, NEW to, NEW force,
             BeginAct(kind, src, to, force)
      PROVE  act' # NoAct
  BY <1>1 DEF BeginAct, Act, NoAct
<1>2. CASE \E e \in todo : CopyOne(e)
  BY <1>2 DEF CopyOne
<1>3. CASE Publish
  BY <1>3 DEF Publish
<1>4. ASSUME NEW o \in Operations,
             CASE o.kind = "remove"  -> RemovePath(o.src)
               [] o.kind = "move"    -> MovePath(o.src, o.dst, o.force)
               [] o.kind = "copy"    -> CopyPath(o.src, o.dst, o.force)
               [] o.kind = "patch"   -> PatchFile(o)
               [] o.kind = "restore" -> RestoreAsset(o)
      PROVE  act' # NoAct
  <2>1. o.kind \in {"remove", "move", "copy", "patch", "restore"}
    BY OperationAssumption
  <2> QED
    BY <1>1, <1>4, <2>1 DEF RemovePath, MovePath, CopyPath, PatchFile, RestoreAsset
<1> QED
  BY <1>2, <1>3, <1>4 DEF LayoutNext

\* An operation leaves what the installer has done.
LEMMA LayoutLeavesIt ==
    ASSUME InstallerSound, todo # {} => act # NoAct,
           phase = "done", LayoutNext, UNCHANGED fomodVars
    PROVE  InstallerSound'
<1>1. /\ phase' = phase /\ job' = job /\ at' = at /\ files' = files /\ consumed' = consumed
      /\ flags' = flags
  BY DEF fomodVars
<1>2. act' = NoAct => act = NoAct /\ tree' = tree
  BY OperationBegins
<1> QED
  BY <1>1, <1>2 DEF InstallerSound, Asked, Placed

\* The bids for a path that an entry of their own file makes.
BidsOf(p, k) ==
    {[part |-> k, file |-> f, entry |-> e] :
        f \in {f \in Chosen(k) : \E e \in ToSet(f.entries) : e.to = p},
        e \in UNION {ToSet(f.entries) : f \in Chosen(k)}}

\* A bid is a part, a directive that is chosen of it, and an entry of that directive.
LEMMA OwnBid ==
    ASSUME NEW p, NEW b
    PROVE  b \in OwnBids(p) <=>
              \E k \in 0..(Len(Steps) + 1) : \E f \in Chosen(k) : \E e \in ToSet(f.entries) :
                 e.to = p /\ b = [part |-> k, file |-> f, entry |-> e]
<1>1. Bids(p) = UNION {BidsOf(p, k) : k \in 0..(Len(Steps) + 1)}
  BY DEF Bids, BidsOf
<1>2. b \in Bids(p) <=> \E k \in 0..(Len(Steps) + 1) : b \in BidsOf(p, k)
  BY <1>1
<1>3. ASSUME NEW k
      PROVE  b \in BidsOf(p, k) /\ b.entry \in ToSet(b.file.entries) /\ b.entry.to = p <=>
                \E f \in Chosen(k) : \E e \in ToSet(f.entries) :
                   e.to = p /\ b = [part |-> k, file |-> f, entry |-> e]
  <2> DEFINE bid(f, e) == [part |-> k, file |-> f, entry |-> e]
             every == UNION {ToSet(f.entries) : f \in Chosen(k)}
  <2>1. \A f \in Chosen(k) : \A e \in ToSet(f.entries) : e \in every
    OBVIOUS
  <2>2. \A f, e : bid(f, e).entry = e /\ bid(f, e).file = f
    OBVIOUS
  <2>3. b \in BidsOf(p, k) <=>
           \E f \in {f \in Chosen(k) : \E e \in ToSet(f.entries) : e.to = p} : \E e \in every :
              b = bid(f, e)
    BY DEF BidsOf
  <2> HIDE DEF bid, every
  <2>4. b \in BidsOf(p, k) <=>
           \E f \in Chosen(k) : /\ \E e \in ToSet(f.entries) : e.to = p
                               /\ \E e \in every : b = bid(f, e)
    BY <2>3
  <2>5. b \in BidsOf(p, k) /\ b.entry \in ToSet(b.file.entries) /\ b.entry.to = p <=>
           \E f \in Chosen(k) : \E e \in ToSet(f.entries) : e.to = p /\ b = bid(f, e)
    BY <2>1, <2>2, <2>4
  <2> QED
    BY <2>5 DEF bid
<1> QED
  BY <1>2, <1>3 DEF OwnBids

\* What the installer leaves is what it is to install: a sorted queue keeps the order
\* of the parts where priorities are equal, what is joined of it has the entries of
\* each directive in that order, and of the entries for a path the last stays.
LEMMA InstallerExact == InstallerSound => FomodIsExact
<1> SUFFICES ASSUME InstallerSound, phase = "done", job # NoInstaller, act = NoAct
             PROVE  InstallerOutput
  BY DEF FomodIsExact
<1> DEFINE N == Len(Steps) + 1
           out == OutputOf(files)
           lists == [i \in DOMAIN files |-> files[i].entries]
<1>1. /\ job \in Installers /\ Asked /\ Placed(tree, out, Len(out))
      /\ Steps = StepsIn(job) /\ Len(Steps) \in Nat /\ DOMAIN Steps = 1..Len(Steps)
  BY InJob, StepNumbers DEF InstallerSound
<1>2. /\ Used(job, consumed, N) /\ files \in Seq(DirectivesIn(job))
      /\ QueuedByRank(files, job, consumed, N)
  BY <1>1 DEF Asked
<1>3. ASSUME NEW k \in DOMAIN Steps, Groups(Steps[k]) # {}
      PROVE  Shown(k) <=> Matches(Steps[k].visible, Before(k))
  <2>1. k < N
    BY <1>1
  <2>2. ShownIn(job, consumed, k) <=> Matches(Steps[k].visible, BeforeIn(job, consumed, k))
    BY <1>1, <1>2, <1>3, <2>1, UsedShown
  <2> QED
    BY <2>2, InJob
<1>4. PICK from : QueueOf(from, files, job, consumed, N) /\ Ranked(from, files)
  BY <1>2 DEF QueuedByRank
<1>5. /\ Len(out) \in Nat /\ DOMAIN out = 1..Len(out)
      /\ Joined(out, lists, Len(files))
  BY <1>1, <1>2, OutputListed
<1>6. PICK spot : JoinedFrom(spot, out, lists, Len(files))
  BY <1>5 DEF Joined
<1>7. Len(files) \in Nat /\ \A m \in 1..Len(files) : files[m] \in DirectivesIn(job) /\ lists[m] = files[m].entries
  BY <1>2
<1>8. \A f \in DirectivesIn(job) : /\ f.priority \in Int /\ Len(f.entries) \in Nat
                                  /\ ToSet(f.entries) = {f.entries[i] : i \in 1..Len(f.entries)}
  <2>1. \A f \in DirectivesIn(job) : f.priority \in Int /\ f.entries \in Seq(ToSet(f.entries))
    BY <1>1, InstallerParts
  <2>2. \A V, s : s \in Seq(V) => DOMAIN s = 1..Len(s) /\ Len(s) \in Nat
    OBVIOUS
  <2>3. \A f \in DirectivesIn(job) : DOMAIN f.entries = 1..Len(f.entries) /\ Len(f.entries) \in Nat
    BY <2>1, <2>2
  <2> QED
    BY <2>1, <2>3 DEF ToSet
<1>9. /\ from \in [1..Len(files) -> 0..N]
      /\ \A i \in 1..Len(files) : files[i] \in Chosen(from[i])
      /\ \A k \in 0..N : \A f \in Chosen(k) : \E i \in 1..Len(files) : from[i] = k /\ files[i] = f
  BY <1>4, InJob DEF QueueOf
<1> HIDE DEF N, out, lists
\* Every bid is one of the entries that are put, at the place of its directive in the queue.
<1>10. ASSUME NEW p, NEW b \in OwnBids(p)
       PROVE  \E l \in 1..Len(out) :
                 /\ out[l].to = p /\ out[l] = b.entry /\ spot[l] \in 1..Len(files)
                 /\ files[spot[l]] = b.file /\ from[spot[l]] = b.part
  <2>1. PICK k \in 0..N : \E f \in Chosen(k) : \E e \in ToSet(f.entries) :
           e.to = p /\ b = [part |-> k, file |-> f, entry |-> e]
    BY <1>10, OwnBid DEF N
  <2>2. PICK f \in Chosen(k) : \E e \in ToSet(f.entries) :
           e.to = p /\ b = [part |-> k, file |-> f, entry |-> e]
    BY <2>1
  <2>3. PICK e \in ToSet(f.entries) : e.to = p /\ b = [part |-> k, file |-> f, entry |-> e]
    BY <2>2
  <2>4. b.part = k /\ b.file = f /\ b.entry = e
    BY <2>3
  <2>5. PICK i \in 1..Len(files) : from[i] = k /\ files[i] = f
    BY <1>9
  <2>6. PICK j \in 1..Len(files[i].entries) : e = files[i].entries[j]
    BY <1>7, <1>8, <2>3, <2>5
  <2>7. PICK l \in 1..Len(out) : spot[l] = i /\ out[l] = lists[i][j]
    BY <1>6, <1>7, <2>6 DEF JoinedFrom
  <2> QED
    BY <1>7, <2>3, <2>4, <2>5, <2>6, <2>7
<1>11. ASSUME NEW p \in Paths
       PROVE  IF OwnBids(p) = {} THEN tree[p] \in {None, Dir}
              ELSE \E b \in OwnBids(p) :
                      tree[p] = b.entry.is /\ \A c \in OwnBids(p) : Outbids(b, c)
  <2>1. CASE (\A i \in 1..Len(out) : out[i].to # p) /\ tree[p] \in {None, Dir}
    <3>1. OwnBids(p) = {}
      BY <1>10, <2>1
    <3> QED
      BY <2>1, <3>1
  <2>2. CASE \E i \in 1..Len(out) : /\ out[i].to = p /\ tree[p] = out[i].is
                                   /\ \A j \in 1..Len(out) : out[j].to = p => j <= i
    <3>1. PICK i \in 1..Len(out) : /\ out[i].to = p /\ tree[p] = out[i].is
                                  /\ \A j \in 1..Len(out) : out[j].to = p => j <= i
      BY <2>2
    <3> DEFINE m == spot[i]
               b == [part |-> from[m], file |-> files[m], entry |-> out[i]]
    <3>2. /\ m \in 1..Len(files) /\ files[m] \in DirectivesIn(job) /\ from[m] \in 0..N
          /\ files[m] \in Chosen(from[m])
      BY <1>6, <1>7, <1>9 DEF JoinedFrom
    <3>3. out[i] \in ToSet(files[m].entries)
      <4>1. PICK j \in 1..Len(lists[m]) : out[i] = lists[m][j]
        BY <1>6 DEF JoinedFrom
      <4>2. lists[m] = files[m].entries
        BY <1>7, <3>2
      <4>3. j \in 1..Len(files[m].entries) /\ out[i] = files[m].entries[j]
        BY <4>1, <4>2
      <4>4. ToSet(files[m].entries) = {files[m].entries[l] : l \in 1..Len(files[m].entries)}
        BY <1>8, <3>2
      <4> QED
        BY <4>3, <4>4
    <3>4. b \in OwnBids(p)
      BY <3>1, <3>2, <3>3, OwnBid DEF N
    <3>5. ASSUME NEW c \in OwnBids(p) PROVE Outbids(b, c)
      <4>1. PICK l \in 1..Len(out) :
               /\ out[l].to = p /\ out[l] = c.entry /\ spot[l] \in 1..Len(files)
               /\ files[spot[l]] = c.file /\ from[spot[l]] = c.part
        BY <1>10
      <4>2. l <= i
        BY <3>1, <4>1
      <4>3. spot[l] <= m
        <5>1. l < i \/ l = i
          BY <4>2
        <5>2. l < i => spot[l] <= spot[i]
          BY <1>6 DEF JoinedFrom
        <5> QED
          BY <3>2, <4>1, <5>1, <5>2
      <4>4. b.part = from[m] /\ b.file = files[m]
        OBVIOUS
      <4>5. CASE spot[l] = m
        <5>1. files[m].priority \in Int /\ from[m] \in Int
          BY <1>8, <3>2
        <5> QED
          BY <4>1, <4>4, <4>5, <5>1 DEF Outbids
      <4>6. CASE spot[l] < m
        <5>1. \/ files[spot[l]].priority < files[m].priority
              \/ files[spot[l]].priority = files[m].priority /\ from[spot[l]] <= from[m]
          BY <1>4, <3>2, <4>1, <4>6 DEF Ranked
        <5> QED
          BY <4>1, <4>4, <5>1 DEF Outbids
      <4> QED
        BY <3>2, <4>1, <4>3, <4>5, <4>6
    <3>6. b.entry = out[i]
      OBVIOUS
    <3> QED
      BY <3>1, <3>4, <3>5, <3>6
  <2> QED
    BY <1>1, <2>1, <2>2 DEF Placed
<1> QED
  BY <1>3, <1>11 DEF InstallerOutput

-----------------------------------------------------------------------------
(* The whole preparation.                                                   *)

InstallerInv ==
    /\ phase \in {"steps", "write", "done", "refused"}
    /\ at \in Nat \ {0}
    /\ job # NoInstaller => consumed \subseteq DOMAIN job.selections
    /\ todo # {} => act # NoAct

\* The installer writes a tree too, and no selection that is not pinned counts.
LEMMA InstallerStep ==
    ASSUME StageInv, InstallerInv, FomodNext, UNCHANGED layoutVars
    PROVE  StageInv' /\ InstallerInv'
<1>1. phase # "done" /\ act = NoAct /\ todo = {} /\ act.kind = "none"
  BY DEF FomodNext, Hidden, RunStep, Conditional, Write, Finish, StageInv, NoAct, Act
<1>2. IsTree(tree')
  <2>1. CASE Write /\ tree' # tree
    <3>1. /\ Output[at].to \in Paths /\ ~Clashes(Output[at])
          /\ tree' = Put(Output[at].to, Output[at].is)
      BY <2>1 DEF Write, Refuse
    <3> QED
      BY <3>1, PutTree DEF Clashes, StageInv
  <2> QED
    BY <2>1 DEF FomodNext, Hidden, RunStep, Conditional, Finish, Refuse, StageInv
<1>3. StageInv'
  BY <1>1, <1>2 DEF layoutVars, StageInv
<1>4. phase' \in {"steps", "write", "done", "refused"} /\ at' \in Nat \ {0} /\ job' = job
  BY DEF FomodNext, Hidden, RunStep, Conditional, Write, Finish, Refuse, InstallerInv
<1>5. job # NoInstaller => consumed' \subseteq DOMAIN job.selections
  BY DEF FomodNext, Hidden, RunStep, Conditional, Write, Finish, Refuse, InstallerInv, Allowed
<1> QED
  BY <1>1, <1>3, <1>4, <1>5 DEF InstallerInv, layoutVars

\* A package begins with a tree and with nothing staged.
LEMMA PackageBegins == PackageInit => StageInv /\ InstallerInv
<1>1. ASSUME NEW n \in {MaxActions, MaxAfterFomod, 0}, IsTree(tree),
             act = NoAct, todo = {}, left = n, layout \in {"open", "placed"}
      PROVE  StageInv
  BY <1>1, PackagesAssumption DEF StageInv, NoAct, Act
<1>2. CASE FomodInit /\ LayoutInit(MaxAfterFomod)
  <2>1. IsTree(tree)
    BY <1>2 DEF FomodInit, IsTree
  <2>2. InstallerInv
    BY <1>2 DEF FomodInit, LayoutInit, InstallerInv
  <2> QED
    BY <1>1, <1>2, <2>1, <2>2 DEF LayoutInit
<1>3. CASE tree \in Packages /\ NoFomod /\ LayoutInit(MaxActions)
  BY <1>1, <1>3, PackagesAssumption DEF NoFomod, LayoutInit, InstallerInv
<1>4. CASE tree = Raw /\ NoLayout
  BY <1>1, <1>4, PackagesAssumption DEF NoFomod, NoLayout, InstallerInv
<1> QED
  BY <1>2, <1>3, <1>4 DEF PackageInit

\* Every step of a preparation keeps the invariants of the stage and of the installer.
LEMMA PrepareStep ==
    ASSUME StageInv, InstallerInv, [PrepareNext]_<<packageVars, orderVars>>
    PROVE  StageInv' /\ InstallerInv'
<1>1. CASE FomodNext /\ UNCHANGED layoutVars
  BY <1>1, InstallerStep
<1>2. CASE phase = "done" /\ LayoutNext /\ UNCHANGED fomodVars
  BY <1>2, LayoutStep, OperationBegins DEF fomodVars, InstallerInv
<1>3. CASE UNCHANGED packageVars
  BY <1>3 DEF packageVars, layoutVars, fomodVars, StageInv, InstallerInv
<1> QED
  BY <1>1, <1>2, <1>3 DEF PrepareNext, PackageNext

\* After a package is laid out the plugins are ordered as LoadOrder has it, and
\* by nothing else.
THEOREM PrepareOrders == PrepareSpec => OrderSpec
<1>1. PrepareInit => OrderInit
  BY BriefAssumption DEF PrepareInit, OrderInit
<1>2. [PrepareNext]_<<packageVars, orderVars>> => [OrderNext]_orderVars
  BY DEF PrepareNext
<1> QED
  BY <1>1, <1>2, PTL DEF PrepareSpec, OrderSpec

\* Whatever is laid out before it, the order that a preparation ends with is exact,
\* and it only refuses what has none (native_backend.cpp:785-792).
THEOREM PreparedOrdersAreExact == PrepareSpec => []OrderIsExact
BY PrepareOrders, LoadOrderIsExact, PTL

\* Of the layout: whatever the operations are, in whatever order the entries of
\* a folder are copied and wherever one of them fails, what was named arrives as
\* it was and nothing else changes (mod_layout.cpp:58-80, 184-216).
THEOREM LayoutsAreExact == PrepareSpec => []LayoutIsExact
<1>1. PrepareSpec => [](StageInv /\ InstallerInv)
  BY PackageBegins, PrepareStep, PTL DEF PrepareSpec, PrepareInit
<1> QED
  BY <1>1, StageExact, PTL

\* Of the installer: whatever the pinned selections hide or show, the stage that the
\* operations find has at every path what the highest priority, and of equal ones
\* the later part of the installer, puts there (fomod.cpp:344-481).
THEOREM FomodsAreExact == PrepareSpec => []FomodIsExact
<1>1. PackageInit => InstallerSound
  BY InstallerBegins DEF PackageInit, NoFomod, NoLayout, InstallerSound
<1>2. ASSUME StageInv, InstallerInv, InstallerSound, [PrepareNext]_<<packageVars, orderVars>>
      PROVE  InstallerSound'
  <2>1. CASE FomodNext
    BY <1>2, <2>1, InstallerGoesOn
  <2>2. CASE phase = "done" /\ LayoutNext /\ UNCHANGED fomodVars
    BY <1>2, <2>2, LayoutLeavesIt DEF InstallerInv
  <2>3. CASE UNCHANGED packageVars
    BY <1>2, <2>3 DEF packageVars, layoutVars, fomodVars, InstallerSound, Asking, Asked, Placed
  <2> QED
    BY <1>2, <2>1, <2>2, <2>3 DEF PrepareNext, PackageNext
<1>3. PrepareSpec => [](StageInv /\ InstallerInv /\ InstallerSound)
  BY <1>1, <1>2, PackageBegins, PrepareStep, PTL DEF PrepareSpec, PrepareInit
<1> QED
  BY <1>3, InstallerExact, PTL

\* The stage and the walk have their types: folders are above whatever exists,
\* whatever operation fails and however far it came.
THEOREM PrepareTyped == PrepareSpec => []PrepareTypeOK
<1>1. PrepareSpec => [](StageInv /\ InstallerInv)
  BY PackageBegins, PrepareStep, PTL DEF PrepareSpec, PrepareInit
<1>2. StageInv /\ InstallerInv => PackageTypeOK
  BY DEF StageInv, InstallerInv, PackageTypeOK
<1> QED
  BY <1>1, <1>2, PrepareOrders, LoadOrderTyped, PTL DEF PrepareTypeOK

-----------------------------------------------------------------------------
(* The handler. *)

\* What was saved stands for what was replaced.
Saved ==
    /\ backup \in Registry
    /\ backup["command"] = foreign["command"]
    /\ ~mixed => backup = foreign

\* The values that a restoration has written when it reaches a step.
Written ==
    CASE op.step = "description"  -> {}
      [] op.step = "protocol"     -> {"description"}
      [] op.step = "command"      -> {"description", "protocol"}
      [] op.step = "removeBackup" -> Values

\* Why the handler is restorable: the values are saved before the first is
\* replaced, the command is the first to be replaced and the last to be put
\* back, and the saved values stay until all three are in place.
HandlerInv ==
    /\ registry \in Registry /\ foreign \in Registry
    /\ backup \in Registry \cup {Nothing} /\ mixed \in BOOLEAN
    /\ foreign["command"] # Ours
    /\ HandlerRestorable
    /\ op.cmd = "enable" =>
          /\ Saved /\ op.step \in Values
          /\ HandlerOwned <=> op.step # "command"
    /\ op.cmd \in {"recover", "disable"} =>
          /\ Saved /\ op.step \in Values \cup {"removeBackup"}
          /\ \A v \in Written : registry[v] = backup[v]

\* A step that leaves the handler alone, and goes on with no command on it.
LEMMA HandlerKept ==
    ASSUME HandlerInv, UNCHANGED handler,
           \/ op' = op
           \/ op'.cmd \notin {"enable", "recover", "disable"}
    PROVE  HandlerInv'
<1>1. UNCHANGED <<registry, foreign, mixed, backup>>
  BY DEF handler
<1>2. HandlerRestorable' /\ HandlerOwned' = HandlerOwned /\ Saved' = Saved
  BY <1>1 DEF HandlerInv, HandlerRestorable, HandlerOwned, Saved
<1>3. CASE op' = op
  BY <1>1, <1>2, <1>3 DEF HandlerInv, Written
<1>4. CASE op'.cmd \notin {"enable", "recover", "disable"}
  BY <1>1, <1>2, <1>4 DEF HandlerInv
<1> QED
  BY <1>3, <1>4

\* At first the protocol belongs to one application that is not ours.
LEMMA HandlerInit == Init => HandlerInv
<1> SUFFICES ASSUME Init PROVE HandlerInv
  OBVIOUS
<1>1. PICK a \in Applications \cup {Nothing} :
         registry = RegisteredBy(a) /\ foreign = RegisteredBy(a)
  BY DEF Init
<1>2. a # Ours
  BY UmoAssumption
<1>3. op.cmd = "idle" /\ mixed = FALSE /\ backup = Nothing
  BY DEF Init, Op
<1> QED
  BY <1>1, <1>2, <1>3
     DEF HandlerInv, HandlerRestorable, HandlerOwned, RegisteredBy, Registry, Values

\* Another application registers itself, completely or in part.
LEMMA HandlerTakeOver ==
    ASSUME HandlerInv, NEW a \in Applications, NEW taken \in {Values, {"command"}},
           TakeOver(a, taken)
    PROVE  HandlerInv'
<1>1. /\ registry' = [v \in Values |-> IF v \in taken THEN a ELSE registry[v]]
      /\ foreign' = [v \in Values |-> IF v \in taken THEN a ELSE foreign[v]]
      /\ mixed' = (taken # Values /\ (mixed \/ HandlerOwned))
      /\ op.cmd = "idle" /\ op' = op /\ backup' = backup
  BY DEF TakeOver, Idle
<1>2. a # Ours /\ "command" \in taken
  BY UmoAssumption DEF Values
<1>3. registry \in Registry /\ foreign \in Registry /\ mixed \in BOOLEAN
  BY DEF HandlerInv
<1>4. registry' \in Registry /\ foreign' \in Registry /\ mixed' \in BOOLEAN
  BY <1>1, <1>3 DEF Registry
<1>5. registry'["command"] = a /\ foreign'["command"] = a
  BY <1>1, <1>2 DEF Values
<1>6. ~mixed' => registry' = foreign'
  <2>1. CASE taken = Values
    BY <1>1, <2>1
  <2>2. CASE taken # Values
    <3>1. ~mixed' => registry = foreign
      BY <1>1, <1>3, <2>2 DEF HandlerInv, HandlerRestorable
    <3> QED
      BY <1>1, <3>1
  <2> QED
    BY <2>1, <2>2
<1> QED
  BY <1>1, <1>2, <1>4, <1>5, <1>6 DEF HandlerInv, HandlerRestorable, HandlerOwned

\* enable saves the values that it is about to replace.
LEMMA HandlerBeginEnable == HandlerInv /\ BeginEnable => HandlerInv'
<1> SUFFICES ASSUME HandlerInv, BeginEnable PROVE HandlerInv'
  OBVIOUS
<1>1. /\ ~HandlerOwned /\ backup' = registry
      /\ registry' = registry /\ foreign' = foreign /\ mixed' = mixed
      /\ op'.cmd = "enable" /\ op'.step = "command"
  BY DEF BeginEnable, Begin, Op
<1>2. Saved'
  BY <1>1 DEF HandlerInv, HandlerRestorable, Saved
<1> QED
  BY <1>1, <1>2 DEF HandlerInv, HandlerRestorable, HandlerOwned, Values

\* Disabling begins only while the handler is ours.
LEMMA HandlerBeginDisable == HandlerInv /\ BeginDisable => HandlerInv'
<1> SUFFICES ASSUME HandlerInv, BeginDisable PROVE HandlerInv'
  OBVIOUS
<1>1. /\ HandlerOwned
      /\ registry' = registry /\ foreign' = foreign /\ mixed' = mixed /\ backup' = backup
      /\ op'.cmd = "disable" /\ op'.step = "description"
  BY DEF BeginDisable, Begin, Op, handler
<1> QED
  BY <1>1 DEF HandlerInv, HandlerRestorable, HandlerOwned, Saved, Written, Values

\* A registration that fails is taken back, from the first value on.
LEMMA HandlerRegister == HandlerInv /\ Register => HandlerInv'
<1> SUFFICES ASSUME HandlerInv, Register PROVE HandlerInv'
  OBVIOUS
<1>1. /\ op.cmd = "enable" /\ op.step \in Values
      /\ foreign' = foreign /\ mixed' = mixed /\ backup' = backup
      /\ Saved /\ (HandlerOwned <=> op.step # "command")
  BY DEF Register, HandlerInv
<1>2. Saved'
  BY <1>1 DEF Saved
<1>3. CASE /\ registry' = [registry EXCEPT ![op.step] = Ours]
           /\ IF After(op.step) = "done" THEN End(TRUE) ELSE Goto(After(op.step))
  <2>1. registry' \in Registry /\ HandlerOwned'
    BY <1>1, <1>3 DEF HandlerInv, Registry, HandlerOwned, Values
  <2>2. HandlerRestorable'
    BY <1>2, <2>1, UmoAssumption DEF HandlerRestorable, Saved
  <2>3. \/ op'.cmd = "idle"
        \/ op'.cmd = "enable" /\ op'.step \in Values \ {"command"}
    BY <1>1, <1>3 DEF After, Values, End, Goto, Op
  <2> QED
    BY <1>1, <1>2, <2>1, <2>2, <2>3 DEF HandlerInv
<1>4. CASE op' = Op("recover", "description", op.had, Nothing) /\ registry' = registry
  <2>1. op'.cmd = "recover" /\ op'.step = "description"
    BY <1>4 DEF Op
  <2>2. HandlerRestorable'
    BY <1>1, <1>4 DEF HandlerInv, HandlerRestorable, HandlerOwned
  <2>3. Written' = {}
    BY <2>1 DEF Written
  <2>4. /\ registry' \in Registry /\ foreign' \in Registry
        /\ backup' \in Registry /\ mixed' \in BOOLEAN
        /\ foreign'["command"] # Ours
    BY <1>1, <1>2, <1>4 DEF HandlerInv, Saved
  <2> QED
    <3>1. op'.cmd # "enable" /\ op'.step \in Values \cup {"removeBackup"}
      BY <2>1 DEF Values
    <3>2. \A v \in Written' : registry'[v] = backup'[v]
      BY <2>3
    <3> QED
      BY <1>2, <2>2, <2>4, <3>1, <3>2 DEF HandlerInv
<1> QED
  BY <1>3, <1>4 DEF Register

\* The command is put back last: until then the handler is this launcher's, or
\* what is written is there already.
LEMMA HandlerRestore == HandlerInv /\ Restore => HandlerInv'
<1> SUFFICES ASSUME HandlerInv, Restore PROVE HandlerInv'
  OBVIOUS
<1>1. /\ op.cmd \in {"recover", "disable"} /\ op.step \in Values
      /\ foreign' = foreign /\ mixed' = mixed /\ backup' = backup
      /\ Saved
      /\ \A v \in Written : registry[v] = backup[v]
  BY DEF Restore, HandlerInv
<1>2. Saved'
  BY <1>1 DEF Saved
<1>3. CASE registry' = [registry EXCEPT ![op.step] = backup[op.step]] /\ Goto(Restored(op.step))
  <2>1. /\ op'.cmd = op.cmd /\ op'.step = Restored(op.step)
        /\ op'.step \in {"protocol", "command", "removeBackup"}
    BY <1>1, <1>3 DEF Goto, Op, Restored, Values
  <2>2. /\ registry \in Registry /\ backup \in Registry /\ foreign \in Registry
        /\ foreign["command"] # Ours /\ HandlerRestorable
    BY <1>1 DEF HandlerInv, Saved
  <2>3. /\ registry' \in Registry
        /\ registry'[op.step] = backup[op.step]
        /\ \A v \in Values \ {op.step} : registry'[v] = registry[v]
    BY <1>1, <1>3, <2>2 DEF Registry
  <2>4. \A v \in Written' : registry'[v] = backup'[v]
    BY <1>1, <2>1, <2>3 DEF Written, Restored, Values
  <2>5. HandlerRestorable'
    <3>1. CASE op.step = "command"
      <4>1. \A v \in Values : registry'[v] = backup[v]
        BY <1>1, <2>1, <2>4, <3>1 DEF Written, Restored
      <4>2. registry' = backup
        BY <2>2, <2>3, <4>1 DEF Registry
      <4> QED
        BY <1>1, <2>2, <4>2 DEF HandlerRestorable, HandlerOwned, Saved
    <3>2. CASE op.step # "command"
      <4>1. registry'["command"] = registry["command"]
        BY <2>3, <3>2 DEF Values
      <4>2. CASE HandlerOwned
        BY <1>1, <2>2, <4>1, <4>2, UmoAssumption DEF HandlerRestorable, HandlerOwned, Saved
      <4>3. CASE ~HandlerOwned
        <5>1. ~mixed => registry' = registry
          <6>1. ~mixed => backup[op.step] = registry[op.step]
            BY <1>1, <2>2, <4>3 DEF HandlerRestorable, Saved
          <6> QED
            BY <1>1, <2>2, <2>3, <6>1 DEF Registry
        <5> QED
          BY <1>1, <2>2, <4>1, <4>3, <5>1 DEF HandlerRestorable, HandlerOwned
      <4> QED
        BY <4>2, <4>3
    <3> QED
      BY <3>1, <3>2
  <2> QED
    BY <1>1, <1>2, <2>1, <2>2, <2>3, <2>4, <2>5 DEF HandlerInv, Values
<1>4. CASE End(TRUE) /\ registry' = registry
  BY <1>1, <1>4 DEF HandlerInv, HandlerRestorable, HandlerOwned, End, Op
<1> QED
  BY <1>3, <1>4 DEF Restore

\* The backup goes when nothing is left to restore from it.
LEMMA HandlerRemoveBackup == HandlerInv /\ RemoveBackup => HandlerInv'
<1> SUFFICES ASSUME HandlerInv, RemoveBackup PROVE HandlerInv'
  OBVIOUS
<1>1. /\ op.cmd \in {"recover", "disable"} /\ op.step = "removeBackup"
      /\ registry' = registry /\ foreign' = foreign /\ mixed' = mixed
      /\ backup' = backup \/ backup' = Nothing
      /\ op'.cmd = "idle"
  BY DEF RemoveBackup, End, Op
<1>2. /\ Saved /\ foreign["command"] # Ours /\ HandlerRestorable
      /\ backup \in Registry /\ registry \in Registry
      /\ \A v \in Values : registry[v] = backup[v]
  BY <1>1 DEF HandlerInv, Written, Saved
<1>3. ~HandlerOwned
  BY <1>2 DEF HandlerOwned, Saved, Values
<1> QED
  BY <1>1, <1>2, <1>3 DEF HandlerInv, HandlerRestorable, HandlerOwned

\* Every step keeps the invariant of the handler.
LEMMA HandlerNext == HandlerInv /\ [Next]_vars => HandlerInv'
<1> SUFFICES ASSUME HandlerInv, [Next]_vars PROVE HandlerInv'
  OBVIOUS
<1>1. CASE InstallNext
  <2>1. UNCHANGED handler /\ op.cmd = "install"
    BY <1>1 DEF InstallNext, Extract, DropOld, MoveAside, PutStage, Probe, RemoveTool,
                MoveBack, DropPrevious, Clean, At
  <2>2. op' = op \/ op'.cmd \in {"install", "idle"}
    BY <1>1, <2>1 DEF InstallNext, Extract, DropOld, MoveAside, PutStage, Probe, RemoveTool,
                MoveBack, DropPrevious, Clean, Goto, End, Op
  <2> QED
    BY <2>1, <2>2, HandlerKept
<1>2. CASE Register \/ Restore \/ RemoveBackup \/ BeginEnable \/ BeginDisable
  BY <1>2, HandlerRegister, HandlerRestore, HandlerRemoveBackup, HandlerBeginEnable,
     HandlerBeginDisable
<1>3. CASE BeginInstall \/ BeginConnect \/ Forget \/ \E file \in Files : BeginDownload(file)
  <2>1. UNCHANGED handler /\ op'.cmd \in {"install", "connect", "idle", "download"}
    BY <1>3 DEF BeginInstall, BeginConnect, Forget, BeginDownload, Begin, Op
  <2> QED
    BY <2>1, HandlerKept
<1>4. CASE Connect \/ Ask \/ StopWaiting \/ TimeOut \/ CallbackSends
  <2>1. UNCHANGED handler /\ (op' = op \/ op'.cmd \in {"idle", "download"})
    BY <1>4 DEF Connect, Ask, StopWaiting, TimeOut, CallbackSends, At, Goto, End, Op
  <2> QED
    BY <2>1, HandlerKept
<1>5. CASE CallbackReads \/ Cancel \/ Damage \/ Crash \/ UNCHANGED vars
  <2>1. UNCHANGED handler /\ (op' = op \/ op'.cmd = "idle")
    BY <1>5 DEF CallbackReads, Cancel, Damage, Crash, End, Op, vars
  <2> QED
    BY <2>1, HandlerKept
<1>6. ASSUME NEW a \in Applications, NEW taken \in {Values, {"command"}}, TakeOver(a, taken)
      PROVE  HandlerInv'
  BY <1>6, HandlerTakeOver
<1> QED
  BY <1>1, <1>2, <1>3, <1>4, <1>5, <1>6 DEF Next, CommandNext

-----------------------------------------------------------------------------
(* The helper. *)

\* Where a copy of the tool is while a command that found one goes on, and that
\* only a whole stage is put in its place.
ToolInv ==
    /\ {tool, previous, stage} \subseteq {Nothing, "partial", "whole"}
    /\ op.had \in BOOLEAN
    /\ op.cmd = "install" =>
          /\ op.step \in {"extract", "dropOld", "moveAside", "putStage", "probe",
                          "removeTool", "moveBack", "dropPrevious", "clean"}
          /\ op.step \in {"dropOld", "moveAside", "putStage"} => stage = "whole"
          /\ op.step \in {"probe", "dropPrevious"} => tool = "whole"
    /\ op.had =>
          IF op.cmd = "install" /\ op.step \in {"putStage", "probe", "removeTool", "moveBack"}
          THEN previous = "whole" ELSE tool = "whole"

\* The ways in which a command ends, goes on and begins.
LEMMA EndHad ==
    ASSUME op.had \in BOOLEAN, NEW kept \in BOOLEAN, End(kept)
    PROVE  /\ op'.cmd = "idle" /\ op'.had \in BOOLEAN
           /\ op'.had => op.had /\ kept
<1>1. op' = [cmd |-> "idle", step |-> "idle", had |-> (op.had /\ kept), file |-> Nothing]
  BY DEF End, Op
<1> QED
  BY <1>1, Zenon

\* Going on keeps what the command found when it began.
LEMMA GotoHad ==
    ASSUME NEW step, Goto(step)
    PROVE  op'.cmd = op.cmd /\ op'.step = step /\ op'.had = op.had
BY DEF Goto, Op

\* A command begins with what it finds installed.
LEMMA BeginHad ==
    ASSUME NEW cmd, NEW step, NEW file, Begin(cmd, step, file)
    PROVE  /\ op'.cmd = cmd /\ op'.step = step
           /\ op'.had \in BOOLEAN /\ (op'.had <=> tool = "whole")
<1>1. op' = [cmd |-> cmd, step |-> step, had |-> (tool = "whole"), file |-> file]
  BY DEF Begin, Op
<1> QED
  BY <1>1, Zenon

\* No command has begun.
LEMMA ToolInit == Init => ToolInv
BY DEF Init, ToolInv, Op

\* Every step of an install leaves a whole copy where the next one finds it.
LEMMA ToolInstall == ToolInv /\ InstallNext => ToolInv'
<1> SUFFICES ASSUME ToolInv, InstallNext PROVE ToolInv'
  OBVIOUS
<1>1. CASE Extract
  BY <1>1 DEF ToolInv, Extract, At, Goto, Op
<1>2. CASE DropOld
  BY <1>2 DEF ToolInv, DropOld, At, Goto, Op
<1>3. CASE MoveAside
  BY <1>3 DEF ToolInv, MoveAside, At, Goto, Op
<1>4. CASE PutStage
  BY <1>4 DEF ToolInv, PutStage, At, Goto, Op
<1>5. CASE Probe
  <2>1. /\ op.cmd = "install" /\ op.step = "probe"
        /\ Goto("dropPrevious") \/ Goto("removeTool")
        /\ tool' = tool /\ previous' = previous /\ stage' = stage
    BY <1>5 DEF Probe, At, copies
  <2>2. /\ op'.cmd = "install" /\ op'.step \in {"dropPrevious", "removeTool"}
        /\ op'.had = op.had
    BY <2>1, GotoHad
  <2>3. tool = "whole" /\ (op.had => previous = "whole")
    BY <2>1 DEF ToolInv
  <2> QED
    BY <2>1, <2>2, <2>3 DEF ToolInv
<1>6. CASE RemoveTool
  <2>1. /\ op.cmd = "install" /\ op.step = "removeTool"
        /\ previous' = previous /\ stage' = stage /\ tool' \in {Nothing, "partial"}
        /\ Goto("moveBack") \/ End(FALSE)
    BY <1>6 DEF RemoveTool, At
  <2>2. CASE Goto("moveBack")
    <3>1. op'.cmd = "install" /\ op'.step = "moveBack" /\ op'.had = op.had
      BY <2>1, <2>2, GotoHad
    <3> QED
      BY <2>1, <3>1 DEF ToolInv
  <2>3. CASE End(FALSE)
    <3>1. op'.cmd = "idle" /\ op'.had = FALSE
      BY <2>3, EndHad DEF ToolInv
    <3> QED
      BY <2>1, <3>1 DEF ToolInv
  <2> QED
    BY <2>1, <2>2, <2>3
<1>7. CASE MoveBack
  <2>1. /\ op.cmd = "install" /\ op.step = "moveBack"
        /\ stage' = stage
        /\ \/ /\ tool' = previous /\ previous' = Nothing /\ Goto("clean")
           \/ /\ previous = Nothing /\ tool' = tool /\ previous' = previous /\ Goto("clean")
           \/ /\ tool' = tool /\ previous' = previous
              /\ op' = Op(op.cmd, "clean", FALSE, Nothing)
    BY <1>7 DEF MoveBack, At
  <2>2. CASE Goto("clean")
    <3>1. op'.cmd = "install" /\ op'.step = "clean" /\ op'.had = op.had
      BY <2>1, <2>2, GotoHad
    <3>2. op.had => previous = "whole" /\ previous # Nothing
      BY <2>1, UmoAssumption DEF ToolInv
    <3>3. op.had => tool' = "whole"
      <4>1. CASE tool' = previous
        BY <3>2, <4>1
      <4>2. CASE previous = Nothing
        BY <3>2, <4>2
      <4>3. CASE op' = Op(op.cmd, "clean", FALSE, Nothing)
        BY <3>1, <4>3 DEF Op
      <4> QED
        BY <2>1, <4>1, <4>2, <4>3
    <3> QED
      BY <2>1, <3>1, <3>3 DEF ToolInv
  <2>3. CASE op' = Op(op.cmd, "clean", FALSE, Nothing)
    <3>1. op'.cmd = "install" /\ op'.step = "clean" /\ op'.had = FALSE
      BY <2>1, <2>3 DEF Op
    <3> QED
      BY <2>1, <3>1 DEF ToolInv
  <2> QED
    BY <2>1, <2>2, <2>3
<1>8. CASE DropPrevious
  BY <1>8 DEF ToolInv, DropPrevious, At, Goto, End, Op
<1>9. CASE Clean
  BY <1>9 DEF ToolInv, Clean, At, End, Op
<1> QED
  BY <1>1, <1>2, <1>3, <1>4, <1>5, <1>6, <1>7, <1>8, <1>9 DEF InstallNext

\* Every step keeps the invariant of the tool.
LEMMA ToolNext == ToolInv /\ [Next]_vars => ToolInv'
<1> SUFFICES ASSUME ToolInv, [Next]_vars PROVE ToolInv'
  OBVIOUS
<1>1. CASE InstallNext
  BY <1>1, ToolInstall
<1>2. CASE Register \/ Restore \/ RemoveBackup
  BY <1>2 DEF ToolInv, Register, Restore, RemoveBackup, Goto, End, Op, copies
<1>3. CASE BeginInstall \/ BeginEnable \/ BeginDisable \/ BeginConnect \/ Forget
  <2>1. /\ tool' = tool /\ previous' = previous /\ stage' = stage
        /\ \/ op'.cmd = "install" /\ op'.step = "extract"
           \/ op'.cmd \in {"enable", "disable", "connect", "idle"}
        /\ op'.had \in BOOLEAN /\ (op'.had <=> tool = "whole")
    BY <1>3, BeginHad
       DEF BeginInstall, BeginEnable, BeginDisable, BeginConnect, Forget, copies
  <2> QED
    BY <2>1 DEF ToolInv
<1>4. ASSUME NEW file \in Files, BeginDownload(file) PROVE ToolInv'
  BY <1>4 DEF ToolInv, BeginDownload, Begin, Op, copies
<1>5. CASE Connect \/ Ask \/ StopWaiting \/ TimeOut \/ CallbackSends
  BY <1>5 DEF ToolInv, Connect, Ask, StopWaiting, TimeOut, CallbackSends, At, Goto, End,
              Op, copies
<1>6. CASE CallbackReads \/ Cancel \/ UNCHANGED vars
  BY <1>6 DEF ToolInv, CallbackReads, Cancel, vars, copies
<1>7. CASE Damage
  BY <1>7 DEF ToolInv, Damage, Op
<1>8. CASE Crash
  BY <1>8 DEF ToolInv, Crash, End, Op
<1>9. ASSUME NEW a \in Applications, NEW taken \in {Values, {"command"}}, TakeOver(a, taken)
      PROVE  ToolInv'
  BY <1>9 DEF ToolInv, TakeOver, copies
<1> QED
  BY <1>1, <1>2, <1>3, <1>4, <1>5, <1>6, <1>7, <1>8, <1>9 DEF Next, CommandNext

-----------------------------------------------------------------------------
(* The session. *)

\* What is asked of the adapter and the browser: a download that waits has its
\* own file on disk, and no other command is at a step of an install.
SessionInv ==
    /\ credential \in BOOLEAN /\ cancelled \in BOOLEAN
    /\ {pending, callback} \subseteq Files \cup {Nothing}
    /\ op.cmd = "download" => op.file \in Files
    /\ At("download", "wait") => pending = op.file
    /\ op.cmd # "install" => op.step \notin {"probe", "dropPrevious"}

\* Nothing is asked for when the launcher starts.
LEMMA SessionInit == Init => SessionInv
<1> SUFFICES ASSUME Init PROVE SessionInv
  OBVIOUS
<1>1. op.cmd = "idle" /\ op.step = "idle"
  BY DEF Init, Op
<1>2. credential = FALSE /\ cancelled = FALSE /\ pending = Nothing /\ callback = Nothing
  BY DEF Init
<1> QED
  BY <1>1, <1>2 DEF SessionInv, At

\* A step that leaves the session alone and goes on with an install or a command
\* on the handler, or ends.
LEMMA SessionKept ==
    ASSUME SessionInv, UNCHANGED session, cancelled' \in BOOLEAN,
           \/ op' = op
           \/ op'.cmd = "install"
           \/ op'.cmd # "download" /\ op'.step \notin {"probe", "dropPrevious"}
    PROVE  SessionInv'
BY DEF SessionInv, session, At

\* Every step of the specification keeps the session as it should be.
LEMMA SessionNext == SessionInv /\ [Next]_vars => SessionInv'
<1> SUFFICES ASSUME SessionInv, [Next]_vars PROVE SessionInv'
  OBVIOUS
<1> USE DEF SessionInv
<1>1. CASE InstallNext
  <2>1. UNCHANGED session /\ cancelled' = cancelled /\ op.cmd = "install"
    BY <1>1 DEF InstallNext, Extract, DropOld, MoveAside, PutStage, Probe, RemoveTool,
                MoveBack, DropPrevious, Clean, At
  <2>2. \/ op' = op \/ op'.cmd = "install"
        \/ op'.cmd = "idle" /\ op'.step = "idle"
    BY <1>1, <2>1 DEF InstallNext, Extract, DropOld, MoveAside, PutStage, Probe, RemoveTool,
                MoveBack, DropPrevious, Clean, Goto, End, Op
  <2> QED
    BY <2>1, <2>2, SessionKept
<1>2. CASE Register \/ Restore \/ RemoveBackup
  <2>1. UNCHANGED session /\ cancelled' = cancelled
    BY <1>2 DEF Register, Restore, RemoveBackup
  <2>2. /\ op'.cmd \in {"enable", "recover", "disable", "idle"}
        /\ op'.step \in {"description", "protocol", "command", "removeBackup", "idle"}
    BY <1>2 DEF Register, Restore, RemoveBackup, After, Restored, Values, Goto, End, Op
  <2> QED
    BY <2>1, <2>2, SessionKept
<1>3. CASE BeginInstall \/ BeginEnable \/ BeginDisable \/ BeginConnect
  <2>1. /\ UNCHANGED session /\ cancelled' = FALSE
        /\ op'.cmd \in {"install", "enable", "disable", "connect"}
        /\ op'.step \in {"extract", "command", "description", "run"}
    BY <1>3 DEF BeginInstall, BeginEnable, BeginDisable, BeginConnect, Begin, Op
  <2> QED
    BY <2>1, SessionKept
<1>4. CASE Forget
  BY <1>4 DEF Forget, Begin, At, Op
<1>5. ASSUME NEW file \in Files, BeginDownload(file) PROVE SessionInv'
  BY <1>5 DEF BeginDownload, Begin, At, Op, session
<1>6. CASE Connect
  BY <1>6 DEF Connect, End, At, Op
<1>7. CASE Ask
  BY <1>7 DEF Ask, Goto, End, At, Op
<1>8. CASE StopWaiting \/ TimeOut
  BY <1>8 DEF StopWaiting, TimeOut, End, At, Op
<1>9. CASE CallbackReads \/ CallbackSends
  BY <1>9 DEF CallbackReads, CallbackSends, End, At, Op
<1>10. CASE Cancel \/ Damage \/ Crash \/ UNCHANGED vars
  <2>1. UNCHANGED session
    BY <1>10 DEF Cancel, Damage, Crash, vars
  <2>2. cancelled' \in BOOLEAN
    BY <1>10 DEF Cancel, Damage, Crash, vars
  <2>3. op' = op \/ (op'.cmd = "idle" /\ op'.step = "idle")
    BY <1>10 DEF Cancel, Damage, Crash, End, Op, vars
  <2> QED
    BY <2>1, <2>2, <2>3, SessionKept
<1>11. ASSUME NEW a \in Applications, NEW taken \in {Values, {"command"}}, TakeOver(a, taken)
       PROVE  SessionInv'
  BY <1>11, SessionKept DEF TakeOver
<1> QED
  BY <1>1, <1>2, <1>3, <1>4, <1>5, <1>6, <1>7, <1>8, <1>9, <1>10, <1>11
     DEF Next, CommandNext

-----------------------------------------------------------------------------
(* The theorems. *)

\* The handler of another application can be given back, whichever write fails,
\* wherever the launcher dies and whoever registers in between
\* (umo_helper.cpp:379-414).
THEOREM HandlerIsRestorable == Spec => []HandlerRestorable
<1>1. Spec => []HandlerInv
  BY HandlerInit, HandlerNext, PTL DEF Spec
<1>2. HandlerInv => HandlerRestorable
  BY DEF HandlerInv
<1> QED
  BY <1>1, <1>2, PTL

\* An install keeps the working copy that it found, or has a new one
\* (umo_helper.cpp:282-306).
THEOREM HelperIsKept == Spec => []HelperKept
<1>1. Spec => []ToolInv
  BY ToolInit, ToolNext, PTL DEF Spec
<1>2. ToolInv => HelperKept
  <2>1. SUFFICES ASSUME ToolInv, op.had
                 PROVE  IF Idle THEN tool = "whole" ELSE "whole" \in {tool, previous}
    BY DEF HelperKept
  <2> QED
    BY <2>1 DEF ToolInv, Idle
<1> QED
  BY <1>1, <1>2, PTL

\* Every state has its type: a download waits for the file that is on disk, and
\* what is probed and kept is a whole copy (umo_helper.cpp:191-308, 430-497).
THEOREM HelperTyped == Spec => []TypeOK
<1>1. Spec => [](HandlerInv /\ ToolInv /\ SessionInv)
  BY HandlerInit, HandlerNext, ToolInit, ToolNext, SessionInit, SessionNext, PTL DEF Spec
<1>2. HandlerInv /\ ToolInv /\ SessionInv => TypeOK
  BY DEF HandlerInv, ToolInv, SessionInv, TypeOK
<1> QED
  BY <1>1, <1>2, PTL
=============================================================================
