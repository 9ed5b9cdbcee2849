------------------------- MODULE AtomicInstall_proofs -------------------------
(***************************************************************************)
(* What follows from the promise of AtomicInstall, for every value of its  *)
(* constants: the root never holds a mixture of two builds of one kind.    *)
(***************************************************************************)
EXTENDS AtomicInstall, TLAPS

Fits(k, g) == \A p \in Allowed[k] : tree[p] \in {g[p]} \cup UserContents

AWhole == \A k \in DOMAIN Allowed : \E g \in Shapes(k) : Fits(k, g)

Bytes == {InitialFiles[p] : p \in Paths} \cup UserContents
            \cup UNION {{Image[b][p] : p \in Paths} : b \in Builds}

\* An update of the build b over the build, or none, g: whatever it did not
\* touch is in neither.
UpdateOf(s, b, g) ==
    LET k == KindOf[b]
    IN /\ DOMAIN s.before \subseteq Allowed[k]
       /\ Manifest[k] \in DOMAIN s.before
       /\ s.before[Manifest[k]] = g[Manifest[k]]
       /\ \A p \in DOMAIN s.before : /\ s.before[p] \in Bytes
                                     /\ s.before[p] \in {g[p]} \cup UserContents
                                     /\ s.after[p] = Image[b][p]
       /\ \A p \in Allowed[k] \ DOMAIN s.before : Image[b][p] = Absent /\ g[p] = Absent

\* The snapshots must be part of the invariant: a rollback of any one of them,
\* in any order, puts back what was there then.
AInductive ==
    /\ tree \in [Paths -> Bytes]
    /\ \A k \in DOMAIN Allowed : tree[Manifest[k]] \notin UserContents
    /\ AWhole
    /\ \A s \in snapshots : \E b \in Builds : \E g \in Shapes(KindOf[b]) : UpdateOf(s, b, g)

-----------------------------------------------------------------------------

\* The inventory tells one shape of a kind from another.
LEMMA ShapeKnown ==
    ASSUME PackagesSound, NEW k \in DOMAIN Allowed, NEW g \in Shapes(k), NEW h \in Shapes(k),
           g[Manifest[k]] = h[Manifest[k]]
    PROVE  \A p \in Allowed[k] : g[p] = h[p]
<1> DEFINE none == [p \in Paths |-> Absent]
<1>1. Manifest[k] \in Paths /\ Allowed[k] \subseteq Paths
  BY DEF PackagesSound
<1>2. \/ g = none
      \/ \E b \in Builds : KindOf[b] = k /\ g = Image[b]
  BY DEF Shapes
<1>3. \/ h = none
      \/ \E b \in Builds : KindOf[b] = k /\ h = Image[b]
  BY DEF Shapes
<1>4. none[Manifest[k]] = Absent
  BY <1>1
<1>5. \A b \in Builds : KindOf[b] = k => Image[b][Manifest[k]] # Absent
  BY DEF PackagesSound
<1>6. CASE g = none
  <2>1. h = none
    BY <1>3, <1>4, <1>5, <1>6
  <2> QED
    BY <1>6, <2>1
<1>7. CASE \E b \in Builds : KindOf[b] = k /\ g = Image[b]
  <2>1. PICK b \in Builds : KindOf[b] = k /\ g = Image[b]
    BY <1>7
  <2>2. PICK c \in Builds : KindOf[c] = k /\ h = Image[c]
    BY <1>3, <1>4, <1>5, <2>1
  <2>3. (/\ KindOf[b] = KindOf[c]
         /\ Image[b][Manifest[KindOf[b]]] = Image[c][Manifest[KindOf[b]]])
           => \A p \in Allowed[KindOf[b]] : Image[b][p] = Image[c][p]
    BY DEF PackagesSound
  <2> QED
    BY <2>1, <2>2, <2>3
<1> QED
  BY <1>2, <1>6, <1>7

\* What a build does not replace is neither its own nor in the build before it.
LEMMA UntouchedAbsent ==
    ASSUME PackagesSound, NEW b \in Builds, NEW g \in Shapes(KindOf[b]),
           tree[Manifest[KindOf[b]]] = g[Manifest[KindOf[b]]],
           NEW p \in Allowed[KindOf[b]] \ Touched(b)
    PROVE  Image[b][p] = Absent /\ g[p] = Absent
<1> DEFINE k == KindOf[b]
<1>1. k \in DOMAIN Allowed /\ p \in Allowed[k] /\ p \in Paths
  BY DEF PackagesSound
<1>2. p \notin Ships[b] /\ p # Manifest[k]
  BY DEF Touched
<1>3. Image[b][p] = Absent
  BY <1>1, <1>2 DEF PackagesSound
<1>4. ASSUME NEW c \in Builds, KindOf[c] = k, g = Image[c] PROVE g[p] = Absent
  <2>1. p \notin Ships[c]
    BY <1>1, <1>4 DEF Touched
  <2> QED
    BY <1>1, <1>2, <1>4, <2>1 DEF PackagesSound
<1>5. ASSUME g = [q \in Paths |-> Absent] PROVE g[p] = Absent
  BY <1>1, <1>5
<1> QED
  BY <1>3, <1>4, <1>5 DEF Shapes

\* A sound root that nothing was installed in satisfies the invariant.
LEMMA AInductiveInit ==
    ASSUME PackagesSound, RootSound, AInit
    PROVE  AInductive
BY DEF AInit, AInductive, AWhole, Fits, RootSound, Bytes

\* The files of one kind are replaced, those of the others stay.
LEMMA KindReplaced ==
    ASSUME PackagesSound, AInductive, NEW k \in DOMAIN Allowed, NEW g \in Shapes(k),
           \A p \in Allowed[k] : tree'[p] \in {g[p]} \cup UserContents,
           tree'[Manifest[k]] \notin UserContents,
           \A p \in Paths \ Allowed[k] : tree'[p] = tree[p]
    PROVE  AWhole' /\ \A j \in DOMAIN Allowed : tree'[Manifest[j]] \notin UserContents
<1>1. ASSUME NEW j \in DOMAIN Allowed, j # k, NEW p \in Allowed[j] PROVE tree'[p] = tree[p]
  <2>1. p \in Paths \ Allowed[k]
    BY <1>1 DEF PackagesSound
  <2> QED
    BY <2>1
<1>2. ASSUME NEW j \in DOMAIN Allowed
      PROVE  (\E h \in Shapes(j) : Fits(j, h)') /\ tree'[Manifest[j]] \notin UserContents
  <2>1. CASE j = k
    BY <2>1 DEF Fits
  <2>2. CASE j # k
    <3>1. PICK h \in Shapes(j) : Fits(j, h)
      BY DEF AInductive, AWhole
    <3>2. Fits(j, h)'
      BY <1>1, <2>2, <3>1 DEF Fits
    <3>3. tree'[Manifest[j]] = tree[Manifest[j]]
      BY <1>1, <2>2 DEF PackagesSound
    <3> QED
      BY <3>2, <3>3 DEF AInductive
  <2> QED
    BY <2>1, <2>2
<1> QED
  BY <1>2 DEF AWhole

\* An install puts the new build, whole, in the place of what was there.
LEMMA AInstallKeeps ==
    ASSUME PackagesSound, AInductive, NEW b \in Builds, AInstall(b)
    PROVE  AInductive'
<1> DEFINE k == KindOf[b]
<1>1. k \in DOMAIN Allowed /\ Manifest[k] \in Allowed[k] /\ Allowed[k] \subseteq Paths
  BY DEF PackagesSound
<1>2. Touched(b) \subseteq Allowed[k] /\ Manifest[k] \in Touched(b)
  BY <1>1 DEF AInstall, Touched
<1>3. tree' = [p \in Paths |-> IF p \in Touched(b) THEN Image[b][p] ELSE tree[p]]
  BY DEF AInstall
<1>4. \A p \in Paths : Image[b][p] \in Bytes /\ Image[b][p] \notin UserContents
  BY DEF Bytes, PackagesSound
<1>5. tree \in [Paths -> Bytes]
  BY DEF AInductive
<1>6. tree' \in [Paths -> Bytes]
  BY <1>3, <1>4, <1>5
<1>7. PICK g \in Shapes(k) : Fits(k, g)
  BY <1>1 DEF AInductive, AWhole
<1>8. tree[Manifest[k]] = g[Manifest[k]]
  BY <1>1, <1>7 DEF Fits, AInductive
<1>9. Image[b] \in Shapes(k)
  BY DEF Shapes
<1>10. ASSUME NEW p \in Allowed[k] PROVE tree'[p] \in {Image[b][p]} \cup UserContents
  <2>1. p \in Paths
    BY <1>1
  <2>2. CASE p \in Touched(b)
    BY <1>3, <2>1, <2>2
  <2>3. CASE p \notin Touched(b)
    <3>1. Image[b][p] = Absent /\ g[p] = Absent
      BY <1>7, <1>8, <2>3, UntouchedAbsent
    <3> QED
      BY <1>3, <1>7, <2>1, <2>3, <3>1 DEF Fits
  <2> QED
    BY <2>2, <2>3
<1>11. tree'[Manifest[k]] \notin UserContents /\ \A p \in Paths \ Allowed[k] : tree'[p] = tree[p]
  BY <1>1, <1>2, <1>3, <1>4
<1>12. AWhole' /\ \A j \in DOMAIN Allowed : tree'[Manifest[j]] \notin UserContents
  BY <1>1, <1>9, <1>10, <1>11, KindReplaced
<1>13. ASSUME NEW s \in snapshots'
       PROVE  \E c \in Builds : \E h \in Shapes(KindOf[c]) : UpdateOf(s, c, h)
  <2>1. CASE s \in snapshots
    BY <2>1 DEF AInductive
  <2>2. CASE s \notin snapshots
    <3>1. /\ s.before = [p \in Touched(b) |-> tree[p]]
          /\ s.after = [p \in Touched(b) |-> Image[b][p]]
      BY <2>2, <1>13 DEF AInstall
    <3>2. UpdateOf(s, b, g)
      <4>1. DOMAIN s.before = Touched(b)
        BY <3>1
      <4>2. \A p \in Touched(b) : s.before[p] = tree[p] /\ s.after[p] = Image[b][p]
        BY <3>1
      <4>3. \A p \in Touched(b) : tree[p] \in Bytes /\ tree[p] \in {g[p]} \cup UserContents
        BY <1>1, <1>2, <1>5, <1>7 DEF Fits
      <4>4. \A p \in Allowed[k] \ Touched(b) : Image[b][p] = Absent /\ g[p] = Absent
        BY <1>7, <1>8, UntouchedAbsent
      <4> QED
        BY <1>2, <1>8, <4>1, <4>2, <4>3, <4>4 DEF UpdateOf
    <3> QED
      BY <1>7, <3>2
  <2> QED
    BY <2>1, <2>2
<1> QED
  BY <1>6, <1>12, <1>13 DEF AInductive

\* A rollback, of whichever update, that finds that update's old or new
\* inventory finds nothing else of its kind but the user's edits: what it puts
\* back is what was there before the update, and whole.
LEMMA ARollbackKeeps ==
    ASSUME PackagesSound, AInductive, NEW s \in snapshots, ARollback(s)
    PROVE  AInductive'
<1>0. PICK b \in Builds : \E g \in Shapes(KindOf[b]) : UpdateOf(s, b, g)
  BY DEF AInductive
<1>1. PICK g \in Shapes(KindOf[b]) : UpdateOf(s, b, g)
  BY <1>0
<1> DEFINE k == KindOf[b]
           D == DOMAIN s.before
<1>2. k \in DOMAIN Allowed /\ Manifest[k] \in Allowed[k] /\ Allowed[k] \subseteq Paths
  BY DEF PackagesSound
<1>3. D \subseteq Allowed[k] /\ Manifest[k] \in D /\ s.before[Manifest[k]] = g[Manifest[k]]
  BY <1>1 DEF UpdateOf
<1>4. /\ \A p \in D : tree[p] \in {s.before[p], s.after[p]}
      /\ tree' = [p \in Paths |-> IF p \in D THEN s.before[p] ELSE tree[p]]
      /\ snapshots' = snapshots \ {s}
  BY DEF ARollback
<1>5. PICK h \in Shapes(k) : Fits(k, h)
  BY <1>2 DEF AInductive, AWhole
<1>6. tree[Manifest[k]] = h[Manifest[k]]
  BY <1>2, <1>5 DEF Fits, AInductive
<1>7. \A p \in Allowed[k] \ D : h[p] = Absent /\ g[p] = Absent
  <2>1. CASE h[Manifest[k]] = g[Manifest[k]]
    <3>1. \A p \in Allowed[k] : h[p] = g[p]
      BY <1>2, <2>1, ShapeKnown
    <3> QED
      BY <1>1, <3>1 DEF UpdateOf
  <2>2. CASE h[Manifest[k]] = Image[b][Manifest[k]]
    <3>1. Image[b] \in Shapes(k)
      BY DEF Shapes
    <3>2. \A p \in Allowed[k] : h[p] = Image[b][p]
      BY <1>2, <2>2, <3>1, ShapeKnown
    <3> QED
      BY <1>1, <3>2 DEF UpdateOf
  <2> QED
    BY <1>1, <1>3, <1>4, <1>6, <2>1, <2>2 DEF UpdateOf
<1>8. ASSUME NEW p \in Allowed[k] PROVE tree'[p] \in {g[p]} \cup UserContents
  <2>1. p \in Paths
    BY <1>2
  <2>2. CASE p \in D
    BY <1>1, <1>4, <2>1, <2>2 DEF UpdateOf
  <2>3. CASE p \notin D
    BY <1>4, <1>5, <1>7, <2>1, <2>3 DEF Fits
  <2> QED
    BY <2>2, <2>3
<1>9. tree'[Manifest[k]] \notin UserContents
  <2>1. tree'[Manifest[k]] = g[Manifest[k]]
    BY <1>2, <1>3, <1>4
  <2>2. Manifest[k] \in Paths
    BY <1>2
  <2>3. g[Manifest[k]] = Absent \/ \E c \in Builds : g[Manifest[k]] = Image[c][Manifest[k]]
    BY <2>2 DEF Shapes
  <2>4. Absent \notin UserContents
        /\ \A c \in Builds, p \in Paths : Image[c][p] \notin UserContents
    BY DEF PackagesSound
  <2> QED
    BY <2>1, <2>2, <2>3, <2>4
<1>10. \A p \in Paths \ Allowed[k] : tree'[p] = tree[p]
  BY <1>3, <1>4
<1>11. AWhole' /\ \A j \in DOMAIN Allowed : tree'[Manifest[j]] \notin UserContents
  BY <1>2, <1>8, <1>9, <1>10, KindReplaced
<1>12. tree' \in [Paths -> Bytes]
  <2>1. \A p \in D : s.before[p] \in Bytes
    BY <1>1 DEF UpdateOf
  <2> QED
    BY <1>4, <2>1 DEF AInductive
<1>13. \A r \in snapshots' : \E c \in Builds : \E f \in Shapes(KindOf[c]) : UpdateOf(r, c, f)
  BY <1>4 DEF AInductive
<1> QED
  BY <1>11, <1>12, <1>13 DEF AInductive

\* Every step of the promise keeps the root whole.
LEMMA AInductiveNext ==
    ASSUME PackagesSound, AInductive, [ANext]_avars
    PROVE  AInductive'
<1>1. CASE UNCHANGED avars
  BY <1>1 DEF avars, AInductive, AWhole, Fits
<1>2. ASSUME NEW p \in Editable, NEW c \in UserContents, AEdit(p, c) PROVE AInductive'
  <2>1. /\ tree \in [Paths -> Bytes]
        /\ tree' = [tree EXCEPT ![p] = c] /\ snapshots' = snapshots
    BY <1>2 DEF AEdit, AInductive
  <2>2. tree' \in [Paths -> Bytes]
    BY <2>1 DEF Bytes
  <2>3. \A q \in Paths : tree'[q] = IF q = p THEN c ELSE tree[q]
    BY <2>1
  <2>4. AWhole'
    <3>1. ASSUME NEW k \in DOMAIN Allowed PROVE \E g \in Shapes(k) : Fits(k, g)'
      <4>1. PICK g \in Shapes(k) : Fits(k, g)
        BY DEF AInductive, AWhole
      <4>2. Fits(k, g)'
        BY <2>3, <4>1 DEF Fits, PackagesSound
      <4> QED
        BY <4>2
    <3> QED
      BY <3>1 DEF AWhole
  <2>5. \A k \in DOMAIN Allowed : tree'[Manifest[k]] \notin UserContents
    <3>1. ASSUME NEW k \in DOMAIN Allowed PROVE Manifest[k] \in Paths /\ Manifest[k] # p
      BY DEF PackagesSound
    <3> QED
      BY <2>3, <3>1 DEF AInductive
  <2> QED
    BY <2>1, <2>2, <2>4, <2>5 DEF AInductive
<1> QED
  BY <1>1, <1>2, AInstallKeeps, ARollbackKeeps DEF ANext

\* Installed at once or not at all, and rolled back to exactly what was
\* replaced, the files of a kind are always those of one build or of none, but
\* for the user's edits, whatever the order of updates and rollbacks.
THEOREM PromiseKeepsRootWhole ==
    ASSUME PackagesSound, RootSound
    PROVE  ASpec => []AWhole
<1>1. AInit => AInductive
  BY AInductiveInit
<1>2. AInductive /\ [ANext]_avars => AInductive'
  BY AInductiveNext
<1>3. AInductive => AWhole
  BY DEF AInductive
<1> QED
  BY <1>1, <1>2, <1>3, PTL DEF ASpec
=============================================================================
