---------------------- MODULE CheckableDirModelProofs ----------------------
(***************************************************************************)
(* Proofs, for any tree of files and directories, any of which may become  *)
(* impossible to list: what a click does to the selection, that the marks  *)
(* keep saying what is selected, and that what was shown is uploaded.      *)
(*                                                                         *)
(* What is true of the root, and of an entry when it is of its directory,  *)
(* is true of every entry: NoCycles gives a highest one of those for which *)
(* it is not.  That is how every induction here is done.                   *)
(***************************************************************************)
EXTENDS CheckableDirModel, FiniteSetTheorems, TLAPS

USE RootIsItsOwnParent, ParentsAreDirs, BlindAreDirs

-----------------------------------------------------------------------------
(* The tree.                                                               *)

\* Sets that hold the root, and with a directory what is in it, hold all entries.
LEMMA TreeInduction ==
  ASSUME NEW S, Root \in S, \A e \in Entry \ {Root} : Parent[e] \in S => e \in S
  PROVE  Entry \subseteq S
<1> DEFINE bad == Entry \ S
<1> SUFFICES ASSUME bad # {} PROVE FALSE
  OBVIOUS
<1>1. bad \in SUBSET (Entry \ {Root}) OBVIOUS
<1>2. PICK e \in bad : Parent[e] \notin bad BY <1>1, NoCycles
<1> QED BY <1>2

\* The root has the value base, and step says how an entry gets its value from that
\* of its directory.
HandsDown(V, base, step) == base \in V /\ step \in [Entry -> [V -> V]]
HandedDown(f, V, base, step) ==
  /\ f \in [Entry -> V]
  /\ \A e \in Entry : f[e] = IF e = Root THEN base ELSE step[e][f[Parent[e]]]

\* Values are handed down the tree: there is a function with the value given for the
\* root, in which each entry's value comes from that of its directory.
LEMMA TreeRecursion ==
  ASSUME NEW V, NEW base, NEW step, HandsDown(V, base, step)
  PROVE  \E f : HandedDown(f, V, base, step)
<1> USE DEF HandsDown
<1> DEFINE closed(R) ==
      /\ <<Root, base>> \in R
      /\ \A e \in Entry \ {Root}, v \in V :
            <<Parent[e], v>> \in R => <<e, step[e][v]>> \in R
    least == {p \in Entry \X V : \A R \in SUBSET (Entry \X V) : closed(R) => p \in R}
<1>0. \A e \in Entry, v \in V : step[e][v] \in V OBVIOUS
<1>1. closed(least)
  <2>1. <<Root, base>> \in least OBVIOUS
  <2>2. ASSUME NEW e \in Entry \ {Root}, NEW v \in V, <<Parent[e], v>> \in least
        PROVE  <<e, step[e][v]>> \in least
    <3>1. <<e, step[e][v]>> \in Entry \X V BY <1>0
    <3>2. ASSUME NEW R \in SUBSET (Entry \X V), closed(R)
          PROVE  <<e, step[e][v]>> \in R
      <4>1. <<Parent[e], v>> \in R BY <2>2, <3>2
      <4> QED BY <3>2, <4>1
    <3> QED BY <3>1, <3>2
  <2> QED BY <2>1, <2>2
<1>2. ASSUME NEW e \in Entry, NEW v \in V, <<e, v>> \in least,
             closed(least \ {<<e, v>>})
      PROVE  FALSE
  <2>1. least \ {<<e, v>>} \in SUBSET (Entry \X V) OBVIOUS
  <2> HIDE DEF closed
  <2>2. \A R \in SUBSET (Entry \X V) : closed(R) => <<e, v>> \in R BY <1>2
  <2> HIDE DEF least
  <2>3. <<e, v>> \in least \ {<<e, v>>} BY <1>2, <2>1, <2>2
  <2> QED BY <2>3
<1>3. \A e \in Entry : \E v \in V : <<e, v>> \in least
  <2> DEFINE S == {e \in Entry : \E v \in V : <<e, v>> \in least}
  <2>1. Root \in S BY <1>1
  <2>2. ASSUME NEW e \in Entry \ {Root}, Parent[e] \in S PROVE e \in S
    <3>1. PICK v \in V : <<Parent[e], v>> \in least BY <2>2
    <3>2. <<e, step[e][v]>> \in least /\ step[e][v] \in V BY <1>1, <3>1
    <3> QED BY <3>2
  <2>3. Entry \subseteq S
    <3> HIDE DEF S
    <3> QED BY <2>1, <2>2, TreeInduction
  <2> QED BY <2>3
<1>4. \A e \in Entry : \A v, w \in V : <<e, v>> \in least /\ <<e, w>> \in least => v = w
  <2> DEFINE S == {e \in Entry :
                     \A v, w \in V : <<e, v>> \in least /\ <<e, w>> \in least => v = w}
  <2> HIDE DEF least
  <2>1. Root \in S
    <3>1. ASSUME NEW v \in V, <<Root, v>> \in least, v # base PROVE FALSE
      <4>1. closed(least \ {<<Root, v>>}) BY <1>1, <3>1
      <4> QED BY <1>2, <3>1, <4>1
    <3> QED BY <3>1
  <2>2. ASSUME NEW e \in Entry \ {Root}, Parent[e] \in S PROVE e \in S
    <3>1. PICK u \in V : <<Parent[e], u>> \in least BY <1>3
    <3>2. ASSUME NEW v \in V, <<e, v>> \in least, v # step[e][u] PROVE FALSE
      <4>1. closed(least \ {<<e, v>>})
        BY <1>1, <2>2, <3>1, <3>2
      <4> QED BY <1>2, <3>2, <4>1
    <3> QED BY <3>2
  <2>3. Entry \subseteq S
    <3> HIDE DEF S
    <3> QED BY <2>1, <2>2, TreeInduction
  <2> QED BY <2>3
<1> DEFINE f == [e \in Entry |-> CHOOSE v \in V : <<e, v>> \in least]
<1> HIDE DEF least
<1>5. \A e \in Entry : f[e] \in V /\ <<e, f[e]>> \in least BY <1>3
<1>6. f[Root] = base BY <1>1, <1>4, <1>5
<1>7. ASSUME NEW e \in Entry \ {Root} PROVE f[e] = step[e][f[Parent[e]]]
  <2>1. <<Parent[e], f[Parent[e]]>> \in least /\ f[Parent[e]] \in V BY <1>5
  <2>2. <<e, step[e][f[Parent[e]]]>> \in least BY <1>1, <2>1
  <2> QED BY <1>4, <1>5, <2>1, <2>2
<1>8. f \in [Entry -> V] BY <1>5
<1> HIDE DEF f
<1> QED BY <1>6, <1>7, <1>8 DEF HandedDown

\* What is above an entry: its directory, and what is above that.
LEMMA AncestorsDef ==
  /\ Ancestors \in [Entry -> SUBSET Dir]
  /\ \A e \in Entry :
        Ancestors[e] = IF e = Root THEN {} ELSE {Parent[e]} \cup Ancestors[Parent[e]]
<1> DEFINE V == SUBSET Dir
           step == [e \in Entry |-> [v \in V |-> {Parent[e]} \cup v]]
<1>1. HandsDown(V, {}, step) BY DEF HandsDown
<1>2. PICK f : HandedDown(f, V, {}, step)
  <2> HIDE DEF V, step
  <2> QED BY <1>1, TreeRecursion
<1>3. f = [e \in Entry |-> IF e = Root THEN {} ELSE {Parent[e]} \cup f[Parent[e]]]
  BY <1>2 DEF HandedDown
<1>4. Ancestors = [e \in Entry |-> IF e = Root THEN {}
                                   ELSE {Parent[e]} \cup Ancestors[Parent[e]]]
  BY <1>3 DEF Ancestors
<1>5. \A e \in Entry : Ancestors[e] = IF e = Root THEN {}
                                       ELSE {Parent[e]} \cup Ancestors[Parent[e]]
  BY <1>4
<1>6. \A e \in Entry : Ancestors[e] \in SUBSET Dir
  <2> DEFINE S == {e \in Entry : Ancestors[e] \in SUBSET Dir}
  <2>1. Root \in S BY <1>5
  <2>2. ASSUME NEW e \in Entry \ {Root}, Parent[e] \in S PROVE e \in S
    <3>1. Parent[e] \in Dir /\ Ancestors[Parent[e]] \in SUBSET Dir BY <2>2
    <3>2. Ancestors[e] = {Parent[e]} \cup Ancestors[Parent[e]] BY <1>5
    <3> QED BY <3>1, <3>2
  <2>3. Entry \subseteq S
    <3> HIDE DEF S
    <3> QED BY <2>1, <2>2, TreeInduction
  <2> QED BY <2>3
<1> QED BY <1>4, <1>5, <1>6

\* Above, from an entry upwards.
LEMMA AboveDef ==
  /\ \A d, e : Above(d, e) => d \in Dir /\ e \in Entry \ {Root}
  /\ \A d : \A e \in Entry \ {Root} : Above(d, e) <=> d = Parent[e] \/ Above(d, Parent[e])
<1>1. \A d, e : Above(d, e) <=> e \in Entry /\ d \in Ancestors[e]
  BY DEF Above, Ancestry
<1> QED BY <1>1, AncestorsDef

\* What is above a directory is above all that is below it.
LEMMA AboveTransitive == \A a, b, c : Above(a, b) /\ Above(b, c) => Above(a, c)
<1> DEFINE S == {c \in Entry : \A a, b : Above(a, b) /\ Above(b, c) => Above(a, c)}
<1>1. Root \in S BY AboveDef
<1>2. ASSUME NEW c \in Entry \ {Root}, Parent[c] \in S PROVE c \in S
  <2> SUFFICES ASSUME NEW a, NEW b, Above(a, b), Above(b, c) PROVE Above(a, c)
    OBVIOUS
  <2>1. CASE b = Parent[c] BY <2>1, AboveDef
  <2>2. CASE Above(b, Parent[c]) BY <1>2, <2>2, AboveDef
  <2> QED BY <2>1, <2>2, AboveDef
<1>3. Entry \subseteq S
  <2> HIDE DEF S
  <2> QED BY <1>1, <1>2, TreeInduction
<1> QED BY <1>3, AboveDef

\* Nothing is above itself.
LEMMA AboveIrreflexive == \A e : ~Above(e, e)
<1> DEFINE S == {e \in Entry : ~Above(e, e)}
<1>1. Root \in S BY AboveDef
<1>2. ASSUME NEW e \in Entry \ {Root}, Parent[e] \in S PROVE e \in S
  <2> SUFFICES ASSUME Above(e, e) PROVE FALSE
    OBVIOUS
  <2>1. CASE e = Parent[e] BY <1>2, <2>1
  <2>2. CASE Above(e, Parent[e])
    <3>1. Above(Parent[e], e) BY AboveDef
    <3> QED BY <1>2, <2>2, <3>1, AboveTransitive
  <2> QED BY <2>1, <2>2, AboveDef
<1>3. Entry \subseteq S
  <2> HIDE DEF S
  <2> QED BY <1>1, <1>2, TreeInduction
<1> QED BY <1>3, AboveDef

\* Of two directories above an entry one is above the other.
LEMMA AboveLinear ==
  \A a, b, c : Above(a, c) /\ Above(b, c) => a = b \/ Above(a, b) \/ Above(b, a)
<1> DEFINE S == {c \in Entry : \A a, b : Above(a, c) /\ Above(b, c)
                                            => a = b \/ Above(a, b) \/ Above(b, a)}
<1>1. Root \in S BY AboveDef
<1>2. ASSUME NEW c \in Entry \ {Root}, Parent[c] \in S PROVE c \in S
  BY <1>2, AboveDef
<1>3. Entry \subseteq S
  <2> HIDE DEF S
  <2> QED BY <1>1, <1>2, TreeInduction
<1> QED BY <1>3, AboveDef

\* What is below a directory is in it, or below something that is in it.
LEMMA ChildTowards ==
  \A d, e : Above(d, e) =>
      \E c \in Entry \ {Root} : Parent[c] = d /\ (c = e \/ Above(c, e))
<1> DEFINE S == {e \in Entry : \A d : Above(d, e) =>
                    \E c \in Entry \ {Root} : Parent[c] = d /\ (c = e \/ Above(c, e))}
<1>1. Root \in S BY AboveDef
<1>2. ASSUME NEW e \in Entry \ {Root}, Parent[e] \in S PROVE e \in S
  <2> SUFFICES ASSUME NEW d, Above(d, e)
               PROVE \E c \in Entry \ {Root} : Parent[c] = d /\ (c = e \/ Above(c, e))
    OBVIOUS
  <2>1. CASE d = Parent[e] BY <2>1
  <2>2. CASE Above(d, Parent[e])
    <3>1. PICK c \in Entry \ {Root} : Parent[c] = d /\ (c = Parent[e] \/ Above(c, Parent[e]))
      BY <1>2, <2>2
    <3> QED BY <3>1, AboveDef
  <2> QED BY <2>1, <2>2, AboveDef
<1>3. Entry \subseteq S
  <2> HIDE DEF S
  <2> QED BY <1>1, <1>2, TreeInduction
<1> QED BY <1>3, AboveDef

\* What two entries of one directory have below them is apart.
LEMMA SiblingsApart ==
  ASSUME NEW x \in Entry \ {Root}, NEW y \in Entry \ {Root}, Parent[x] = Parent[y],
         NEW e, x = e \/ Above(x, e), y = e \/ Above(y, e)
  PROVE  x = y
<1> SUFFICES ASSUME x # y PROVE FALSE
  OBVIOUS
<1>1. Above(x, y) \/ Above(y, x) BY AboveLinear
<1>2. Above(Parent[x], x) /\ Above(Parent[x], y) BY AboveDef
<1>3. CASE Above(x, y)
  <2>1. x = Parent[y] \/ Above(x, Parent[x]) BY <1>3, AboveDef
  <2> QED BY <1>2, <2>1, AboveIrreflexive, AboveTransitive
<1>4. CASE Above(y, x)
  <2>1. y = Parent[x] \/ Above(y, Parent[x]) BY <1>4, AboveDef
  <2> QED BY <1>2, <2>1, AboveIrreflexive, AboveTransitive
<1> QED BY <1>1, <1>3, <1>4


-----------------------------------------------------------------------------
(* The recursive functions of the dialog.                                  *)

\* A mark of an entry's own decides whether it is checked, or else its directory.
LEMMA StatusDef ==
  ASSUME NEW m \in Marks
  PROVE  /\ GetCheckStatus(m) \in [Entry -> {"Checked", "Unchecked"}]
         /\ \A e \in Entry :
               GetCheckStatus(m)[e] =
                   CASE m[e] = "Checked" -> "Checked"
                     [] m[e] = "Partial" -> "Unchecked"
                     [] OTHER -> IF e = Root THEN "Unchecked" ELSE GetCheckStatus(m)[Parent[e]]
<1> DEFINE V == {"Checked", "Unchecked"}
           own(e, v) == IF m[e] = "Checked" THEN "Checked"
                        ELSE IF m[e] = "Partial" THEN "Unchecked" ELSE v
           base == own(Root, "Unchecked")
           step == [e \in Entry |-> [v \in V |-> own(e, v)]]
<1>1. HandsDown(V, base, step) BY DEF HandsDown
<1>2. PICK f : HandedDown(f, V, base, step)
  <2> HIDE DEF V, base, step
  <2> QED BY <1>1, TreeRecursion
<1>3. f \in [Entry -> V]
  BY <1>2 DEF HandedDown
<1>4. \A e \in Entry : f[e] = own(e, IF e = Root THEN "Unchecked" ELSE f[Parent[e]])
  BY <1>2 DEF HandedDown
<1>5. f = [e \in Entry |->
             CASE m[e] = "Checked" -> "Checked"
               [] m[e] = "Partial" -> "Unchecked"
               [] OTHER -> IF e = Root THEN "Unchecked" ELSE f[Parent[e]]]
  BY <1>3, <1>4
<1> DEFINE g == GetCheckStatus(m)
<1>6. g = [e \in Entry |->
             CASE m[e] = "Checked" -> "Checked"
               [] m[e] = "Partial" -> "Unchecked"
               [] OTHER -> IF e = Root THEN "Unchecked" ELSE g[Parent[e]]]
  BY <1>5 DEF GetCheckStatus
<1> HIDE DEF g
<1>7. \A e \in Entry : g[e] =
             CASE m[e] = "Checked" -> "Checked"
               [] m[e] = "Partial" -> "Unchecked"
               [] OTHER -> IF e = Root THEN "Unchecked" ELSE g[Parent[e]]
  BY <1>6
<1>8. \A e \in Entry : g[e] \in V
  <2> DEFINE S == {e \in Entry : g[e] \in V}
  <2>1. Root \in S BY <1>7
  <2>2. ASSUME NEW e \in Entry \ {Root}, Parent[e] \in S PROVE e \in S
    BY <1>7, <2>2
  <2>3. Entry \subseteq S
    <3> HIDE DEF S
    <3> QED BY <2>1, <2>2, TreeInduction
  <2> QED BY <2>3
<1>9. g \in [Entry -> V] BY <1>6, <1>8
<1> QED BY <1>7, <1>9 DEF g

\* Marking a directory for what is in it leaves every entry with one of the marks.
LEMMA OneStepTyped ==
  ASSUME NEW m \in Marks, NEW e \in Entry
  PROVE  PropagateOnce(m, e) \in Marks
BY DEF Marks, PropagateOnce, MarkDirectory, SetStatusSideways

\* Marking the directories of an entry is marking its own, and then those above.
LEMMA PropagatedDef ==
  ASSUME NEW m \in Marks, NEW e \in Entry
  PROVE  /\ PropagateUp(m, e) \in Marks
         /\ e = Root => PropagateUp(m, e) = m
         /\ e # Root => PropagateUp(m, e) = PropagateUp(PropagateOnce(m, e), Parent[e])
<1> DEFINE V == [Marks -> Marks]
           base == [n \in Marks |-> n]
           step == [x \in Entry |-> [h \in V |-> [n \in Marks |-> h[PropagateOnce(n, x)]]]]
<1>1. HandsDown(V, base, step)
  <2>1. base \in V OBVIOUS
  <2>2. ASSUME NEW x \in Entry, NEW h \in V
        PROVE  [n \in Marks |-> h[PropagateOnce(n, x)]] \in V
    BY OneStepTyped
  <2>3. step \in [Entry -> [V -> V]]
    <3> HIDE DEF V
    <3> QED BY <2>2
  <2> QED BY <2>1, <2>3 DEF HandsDown
<1>2. PICK f : HandedDown(f, V, base, step)
  <2> HIDE DEF V, base, step
  <2> QED BY <1>1, TreeRecursion
<1>3. f \in [Entry -> V]
  BY <1>2 DEF HandedDown
<1>4. \A x \in Entry : f[x] = [n \in Marks |-> IF x = Root THEN n
                                               ELSE f[Parent[x]][PropagateOnce(n, x)]]
  <2> SUFFICES ASSUME NEW x \in Entry
               PROVE  f[x] = [n \in Marks |-> IF x = Root THEN n
                                              ELSE f[Parent[x]][PropagateOnce(n, x)]]
    OBVIOUS
  <2>1. CASE x = Root BY <1>2, <2>1 DEF HandedDown
  <2>2. CASE x # Root
    <3>1. f[x] = step[x][f[Parent[x]]] BY <1>2, <2>2 DEF HandedDown
    <3>2. f[Parent[x]] \in V BY <1>3
    <3>3. step[x][f[Parent[x]]] = [n \in Marks |-> f[Parent[x]][PropagateOnce(n, x)]]
      <4> HIDE DEF V
      <4> QED BY <3>2
    <3> QED BY <2>2, <3>1, <3>3
  <2> QED BY <2>1, <2>2
<1>5. f = [x \in Entry |-> [n \in Marks |-> IF x = Root THEN n
                                            ELSE f[Parent[x]][PropagateOnce(n, x)]]]
  <2> HIDE DEF V
  <2> QED BY <1>3, <1>4
<1>6. Propagated = [x \in Entry |-> [n \in Marks |-> IF x = Root THEN n
                                     ELSE Propagated[Parent[x]][PropagateOnce(n, x)]]]
  BY <1>5 DEF Propagated
<1>7. \A x \in Entry : Propagated[x] \in V
  <2> DEFINE S == {x \in Entry : Propagated[x] \in V}
  <2>1. Root \in S BY <1>6
  <2>2. ASSUME NEW x \in Entry \ {Root}, Parent[x] \in S PROVE x \in S
    <3>1. Propagated[x] = [n \in Marks |-> Propagated[Parent[x]][PropagateOnce(n, x)]]
      BY <1>6
    <3>2. Propagated[Parent[x]] \in V BY <2>2
    <3>3. \A n \in Marks : Propagated[Parent[x]][PropagateOnce(n, x)] \in Marks
      BY <3>2, OneStepTyped
    <3> QED BY <3>1, <3>3
  <2>3. Entry \subseteq S
    <3> HIDE DEF S
    <3> QED BY <2>1, <2>2, TreeInduction
  <2> QED BY <2>3
<1>8. Propagated[e][m] = IF e = Root THEN m ELSE Propagated[Parent[e]][PropagateOnce(m, e)]
  <2>1. Propagated[e] = [n \in Marks |-> IF e = Root THEN n
                                         ELSE Propagated[Parent[e]][PropagateOnce(n, e)]]
    BY <1>6
  <2> QED BY <2>1
<1> QED BY <1>7, <1>8 DEF PropagateUp

\* A click leaves every entry with one of the marks.
LEMMA ClickTyped ==
  ASSUME NEW m \in Marks, NEW e \in Entry
  PROVE  /\ ClearDown(m, e) \in Marks
         /\ Toggle(ClearDown(m, e), e) \in Marks
         /\ AfterClick(m, e) \in Marks
<1>1. ClearDown(m, e) \in Marks BY DEF ClearDown, Marks
<1>2. ASSUME NEW n \in Marks PROVE Toggle(n, e) \in Marks
  BY DEF Toggle, SetStatusSideways, Marks
<1> QED BY <1>1, <1>2, PropagatedDef DEF AfterClick

\* The dialog's marks, whatever is selected.
LEMMA InitTyped ==
  ASSUME NEW s PROVE InitFiles(s) \in Marks
BY DEF InitFiles, MarksOf, Marks

\* Every variable keeps its type.
THEOREM TypeCorrect == Spec => []TypeOK
<1>1. Init => TypeOK
  BY InitTyped DEF Init, TypeOK
<1>2. TypeOK /\ [Next]_vars => TypeOK'
  <2> SUFFICES ASSUME TypeOK, [Next]_vars PROVE TypeOK'
    OBVIOUS
  <2>1. CASE Open BY <2>1, InitTyped DEF Open, TypeOK
  <2>2. CASE Accepted
    BY <2>2, InitTyped DEF Accepted, Leave, GetSelectedFiles, TypeOK
  <2>3. CASE Rejected BY <2>3, InitTyped DEF Rejected, Leave, TypeOK
  <2>4. ASSUME NEW e \in Entry, Click(e) PROVE TypeOK'
    BY <2>4, ClickTyped DEF Click, TypeOK
  <2>5. ASSUME NEW d \in MayBlind, ChangeDirectory(d) PROVE TypeOK'
    BY <2>5 DEF ChangeDirectory, TypeOK
  <2>6. CASE UNCHANGED vars BY <2>6 DEF vars, TypeOK
  <2> QED BY <2>1, <2>2, <2>3, <2>4, <2>5, <2>6 DEF Next
<1> QED BY <1>1, <1>2, PTL DEF Spec


-----------------------------------------------------------------------------
(* Going up the tree, a directory at a time.                               *)

\* What holds of the marks and an entry, and still does of the marks its directory
\* is given and that directory, holds in the end of the root.
LEMMA UpInduction ==
  ASSUME NEW R,
         \A m \in Marks, x \in Entry \ {Root} :
            <<m, x>> \in R => <<PropagateOnce(m, x), Parent[x]>> \in R
  PROVE  \A m \in Marks, x \in Entry : <<m, x>> \in R => <<PropagateUp(m, x), Root>> \in R
<1> DEFINE S == {x \in Entry :
                   \A m \in Marks : <<m, x>> \in R => <<PropagateUp(m, x), Root>> \in R}
<1>1. Root \in S BY PropagatedDef
<1>2. ASSUME NEW x \in Entry \ {Root}, Parent[x] \in S PROVE x \in S
  <2> SUFFICES ASSUME NEW m \in Marks, <<m, x>> \in R PROVE <<PropagateUp(m, x), Root>> \in R
    OBVIOUS
  <2>1. PropagateOnce(m, x) \in Marks /\ <<PropagateOnce(m, x), Parent[x]>> \in R
    BY OneStepTyped
  <2>2. PropagateUp(m, x) = PropagateUp(PropagateOnce(m, x), Parent[x])
    BY PropagatedDef
  <2> QED BY <1>2, <2>1, <2>2
<1>3. Entry \subseteq S
  <2> HIDE DEF S
  <2> QED BY <1>1, <1>2, TreeInduction
<1> QED BY <1>3

\* What is in a directory.
LEMMA ListedDef ==
  \A d, y : y \in ListDirectory(d) =>
      y \in Entry \ {Root} /\ Parent[y] = d /\ Above(d, y) /\ y # d
BY AboveDef, AboveIrreflexive DEF ListDirectory

\* The three things that can happen to the directory of an entry.
AllChecked(m, p) == \A y \in ListDirectory(p) : m[y] = "Checked"
AllUnchecked(m, p) == \A y \in ListDirectory(p) : m[y] \in {"none", "Unchecked"}

LEMMA OneStepDef ==
  ASSUME NEW m \in Marks, NEW x \in Entry, NEW p, p = Parent[x]
  PROVE  \/ /\ AllChecked(m, p)
            /\ PropagateOnce(m, x) = [y \in Entry |-> IF y \in ListDirectory(p) THEN "Unchecked"
                                                      ELSE IF y = p THEN "Checked" ELSE m[y]]
         \/ /\ AllUnchecked(m, p) /\ ~AllChecked(m, p)
            /\ PropagateOnce(m, x) = [m EXCEPT ![p] = "Unchecked"]
         \/ /\ ~AllUnchecked(m, p) /\ ~AllChecked(m, p)
            /\ PropagateOnce(m, x) = [m EXCEPT ![p] = "Partial"]
<1>1. (\A y \in ListDirectory(p) : Get(m, y) = "Checked") <=> AllChecked(m, p)
  BY DEF Get, AllChecked
<1>2. (\A y \in ListDirectory(p) : Get(m, y) = "Unchecked") <=> AllUnchecked(m, p)
  BY ListedDef DEF Get, AllUnchecked, Marks
<1>3. CASE AllChecked(m, p)
  <2>1. PropagateOnce(m, x) = SetStatusSideways([m EXCEPT ![p] = "Checked"], x, "Unchecked")
    BY <1>1, <1>3 DEF PropagateOnce, MarkDirectory
  <2> QED BY <1>3, <2>1 DEF SetStatusSideways, Marks
<1>4. CASE ~AllChecked(m, p) /\ AllUnchecked(m, p)
  BY <1>1, <1>2, <1>4 DEF PropagateOnce, MarkDirectory
<1>5. CASE ~AllChecked(m, p) /\ ~AllUnchecked(m, p)
  BY <1>1, <1>2, <1>5 DEF PropagateOnce, MarkDirectory
<1> QED BY <1>3, <1>4, <1>5

-----------------------------------------------------------------------------
(* What is shown as partly checked has a reason.                           *)

\* Below d something is checked.
Reason(m, d) == \E e \in Entry : Above(d, e) /\ m[e] = "Checked"

\* While _propagateUp is at x, the directories above x are still to be marked.
ReasonsUpTo(m, x) ==
  \A d \in Entry : m[d] = "Partial" /\ ~Above(d, x) => Reason(m, d)

\* The click itself takes no reason away but from the directories above.
LEMMA ToggleKeepsReasons ==
  ASSUME NEW m \in Marks, NEW e \in Entry, \A d \in Entry : m[d] = "Partial" => Reason(m, d)
  PROVE  ReasonsUpTo(Toggle(ClearDown(m, e), e), e)
<1> DEFINE c == ClearDown(m, e)
           t == Toggle(c, e)
<1>1. c \in Marks BY ClickTyped
<1>2. \A y \in Entry : c[y] = m[y] \/ (c[y] = "none" /\ y \in ListDirectory(e))
  BY DEF ClearDown, Marks
<1>3. t[e] # "Partial" /\ \A y \in Entry \ {e} : t[y] = c[y] \/ t[y] = "Checked"
  <2> HIDE DEF c
  <2> QED BY <1>1 DEF Toggle, SetStatusSideways, Marks
<1> HIDE DEF t, c
<1> SUFFICES ASSUME NEW d \in Entry, t[d] = "Partial", ~Above(d, e) PROVE Reason(t, d)
  BY DEF ReasonsUpTo, t, c
<1>4. d # e /\ m[d] = "Partial" BY <1>2, <1>3
<1>5. PICK y \in Entry : Above(d, y) /\ m[y] = "Checked" BY <1>4 DEF Reason
<1>6. y # e /\ y \notin ListDirectory(e)
  BY <1>4, <1>5, ListedDef, AboveDef
<1> QED BY <1>2, <1>3, <1>5, <1>6 DEF Reason

\* Nor does marking a directory.
LEMMA OneStepKeepsReasons ==
  ASSUME NEW m \in Marks, NEW x \in Entry \ {Root}, ReasonsUpTo(m, x)
  PROVE  ReasonsUpTo(PropagateOnce(m, x), Parent[x])
<1> DEFINE p == Parent[x]
           n == PropagateOnce(m, x)
<1> SUFFICES ASSUME NEW d \in Entry, n[d] = "Partial", ~Above(d, p) PROVE Reason(n, d)
  BY DEF ReasonsUpTo
<1>1. n \in Marks BY OneStepTyped
<1>2. p \in Entry /\ ~Above(p, p) BY AboveIrreflexive
<1>3. ASSUME d # p, m[d] = "Partial"
      PROVE  \E y \in Entry \ ({p} \cup ListDirectory(p)) : Above(d, y) /\ m[y] = "Checked"
  <2>1. ~Above(d, x) BY <1>3, AboveDef
  <2>2. PICK y \in Entry : Above(d, y) /\ m[y] = "Checked"
    BY <1>3, <2>1 DEF ReasonsUpTo, Reason
  <2>3. y # p /\ y \notin ListDirectory(p) BY <1>3, <2>2, ListedDef, AboveDef
  <2> QED BY <2>2, <2>3
<1>4. CASE d # p /\ m[d] = "Partial"
  <2>1. PICK y \in Entry \ ({p} \cup ListDirectory(p)) : Above(d, y) /\ m[y] = "Checked"
    BY <1>3, <1>4
  <2>2. n[y] = "Checked" BY <2>1, OneStepDef DEF Marks
  <2> QED BY <2>1, <2>2 DEF Reason
<1>5. CASE ~(d # p /\ m[d] = "Partial")
  <2>1. d = p /\ ~AllUnchecked(m, p) /\ n = [m EXCEPT ![p] = "Partial"]
    BY <1>2, <1>5, OneStepDef, ListedDef DEF Marks
  <2>2. PICK y \in ListDirectory(p) : m[y] \in {"Partial", "Checked"}
    BY <2>1, ListedDef DEF AllUnchecked, Marks
  <2>3. y \in Entry /\ Above(p, y) /\ y # p BY <2>2, ListedDef
  <2>4. CASE m[y] = "Checked"
    BY <2>1, <2>3, <2>4 DEF Reason, Marks
  <2>5. CASE m[y] = "Partial"
    <3>1. ~Above(y, x) BY <1>2, <2>3, AboveDef, AboveTransitive
    <3>2. PICK z \in Entry : Above(y, z) /\ m[z] = "Checked"
      BY <2>3, <2>5, <3>1 DEF ReasonsUpTo, Reason
    <3>3. Above(p, z) /\ z # p BY <2>3, <3>2, <1>2, AboveTransitive
    <3> QED BY <2>1, <3>2, <3>3 DEF Reason, Marks
  <2> QED BY <2>2, <2>4, <2>5
<1> QED BY <1>4, <1>5

\* So after the click every mark has its reason again.
LEMMA ClickKeepsReasons ==
  ASSUME NEW m \in Marks, NEW e \in Entry, \A d \in Entry : m[d] = "Partial" => Reason(m, d)
  PROVE  \A d \in Entry : AfterClick(m, e)[d] = "Partial" => Reason(AfterClick(m, e), d)
<1> DEFINE R == {r \in Marks \X Entry : ReasonsUpTo(r[1], r[2])}
           t == Toggle(ClearDown(m, e), e)
<1>1. \A n \in Marks, x \in Entry : <<n, x>> \in R <=> ReasonsUpTo(n, x) OBVIOUS
<1>2. \A n \in Marks, x \in Entry \ {Root} :
          <<n, x>> \in R => <<PropagateOnce(n, x), Parent[x]>> \in R
  <2> HIDE DEF R
  <2> QED BY <1>1, OneStepKeepsReasons, OneStepTyped
<1>3. t \in Marks /\ <<t, e>> \in R
  <2> HIDE DEF R
  <2> QED BY <1>1, ToggleKeepsReasons, ClickTyped
<1>4. <<PropagateUp(t, e), Root>> \in R
  <2> HIDE DEF R, t
  <2> QED BY <1>2, <1>3, UpInduction
<1>5. AfterClick(m, e) \in Marks BY ClickTyped
<1>6. ReasonsUpTo(AfterClick(m, e), Root)
  <2> HIDE DEF R
  <2> QED BY <1>1, <1>4, <1>5 DEF AfterClick
<1> QED BY <1>6, AboveDef DEF ReasonsUpTo


\* The marks the dialog opens with.
LEMMA InitDef ==
  ASSUME NEW s, NEW e \in Entry
  PROVE  /\ InitFiles(s)[e] = "Checked" <=> e \in s
         /\ InitFiles(s)[e] = "Partial" <=> e \notin s /\ \E f \in s : Above(e, f)
BY DEF InitFiles, MarksOf

\* They have their reasons.
LEMMA InitHasReasons ==
  ASSUME NEW s, NEW d \in Entry, InitFiles(s)[d] = "Partial"
  PROVE  Reason(InitFiles(s), d)
<1>1. PICK f \in s : Above(d, f) BY InitDef
<1>2. f \in Entry BY <1>1, AboveDef
<1> QED BY <1>1, <1>2, InitDef DEF Reason

IInv == TypeOK /\ PartialHasReason

\* The inductive invariant.
THEOREM InductiveInvariant == Spec => []IInv
<1>1. Init => IInv
  BY InitTyped, InitHasReasons DEF Init, IInv, TypeOK, PartialHasReason, Reason
<1>2. IInv /\ [Next]_vars => IInv'
  <2> SUFFICES ASSUME IInv, [Next]_vars PROVE IInv'
    OBVIOUS
  <2> USE DEF IInv
  <2>1. TypeOK /\ files \in Marks /\ \A d \in Entry : files[d] = "Partial" => Reason(files, d)
    BY DEF TypeOK, PartialHasReason, Reason
  <2>2. ASSUME NEW s, s \subseteq Entry, files' = InitFiles(s) PROVE PartialHasReason'
    BY <2>2, InitHasReasons DEF PartialHasReason, Reason
  <2>3. CASE Open
    BY <2>1, <2>2, <2>3, InitTyped DEF Open, TypeOK
  <2>4. CASE Accepted
    <3>1. files' = InitFiles({}) BY <2>4 DEF Accepted, Leave
    <3>2. PartialHasReason' BY <2>2, <3>1
    <3>3. TypeOK' BY <2>1, <2>4, InitTyped DEF Accepted, Leave, GetSelectedFiles, TypeOK
    <3> QED BY <3>2, <3>3
  <2>5. CASE Rejected
    <3>1. files' = InitFiles({}) BY <2>5 DEF Rejected, Leave
    <3>2. PartialHasReason' BY <2>2, <3>1
    <3>3. TypeOK' BY <2>1, <2>5, InitTyped DEF Rejected, Leave, TypeOK
    <3> QED BY <3>2, <3>3
  <2>6. ASSUME NEW e \in Entry, Click(e) PROVE IInv'
    <3>1. TypeOK' BY <2>1, <2>6, ClickTyped DEF Click, TypeOK
    <3>2. \A d \in Entry : AfterClick(files, e)[d] = "Partial" => Reason(AfterClick(files, e), d)
      BY <2>1, ClickKeepsReasons
    <3>3. PartialHasReason'
      BY <2>6, <3>2 DEF Click, PartialHasReason, Reason
    <3> QED BY <3>1, <3>3
  <2>7. ASSUME NEW d \in MayBlind, ChangeDirectory(d) PROVE IInv'
    BY <2>1, <2>7 DEF ChangeDirectory, TypeOK, PartialHasReason
  <2>8. CASE UNCHANGED vars BY <2>8 DEF vars, TypeOK, PartialHasReason
  <2> QED BY <2>3, <2>4, <2>5, <2>6, <2>7, <2>8 DEF Next
<1> QED BY <1>1, <1>2, PTL DEF Spec

-----------------------------------------------------------------------------
(* Tidy marks say what is selected.                                        *)

\* With tidy marks, an entry is checked if it is marked so or is below one that is.
LEMMA CheckedWhenTidy ==
  ASSUME NEW m \in Marks, Tidy(m), NEW f \in Entry
  PROVE  IsChecked(m, f) <=> \E s \in GetSelectedFiles(m) : s = f \/ Above(s, f)
<1> DEFINE covered(e) == \E s \in Entry : m[s] = "Checked" /\ (s = e \/ Above(s, e))
           S == {e \in Entry : GetCheckStatus(m)[e] = "Checked" <=> covered(e)}
<1>1. Root \in S BY StatusDef, AboveDef
<1>2. ASSUME NEW e \in Entry \ {Root}, Parent[e] \in S PROVE e \in S
  <2>1. CASE m[e] = "Checked" BY <2>1, StatusDef
  <2>2. CASE m[e] = "Partial"
    <3>1. ~covered(e) BY <2>2 DEF Tidy
    <3> QED BY <2>2, <3>1, StatusDef
  <2>3. CASE m[e] \in {"none", "Unchecked"}
    <3>1. GetCheckStatus(m)[e] = GetCheckStatus(m)[Parent[e]] BY <2>3, StatusDef
    <3>2. covered(e) <=> covered(Parent[e]) BY <2>3, AboveDef
    <3> QED BY <1>2, <3>1, <3>2
  <2> QED BY <2>1, <2>2, <2>3 DEF Marks
<1>3. Entry \subseteq S
  <2> HIDE DEF S
  <2> QED BY <1>1, <1>2, TreeInduction
<1> QED BY <1>3 DEF IsChecked, GetSelectedFiles

\* Marks that agree on what is checked and partly checked show the same.
LEMMA ShownAlike ==
  ASSUME NEW m \in Marks, NEW n \in Marks,
         \A e \in Entry : /\ m[e] = "Checked" <=> n[e] = "Checked"
                          /\ m[e] = "Partial" <=> n[e] = "Partial"
  PROVE  \A e \in Entry : Shown(m, e) = Shown(n, e)
<1> DEFINE S == {e \in Entry : GetCheckStatus(m)[e] = GetCheckStatus(n)[e]}
<1>1. Root \in S BY StatusDef
<1>2. ASSUME NEW e \in Entry \ {Root}, Parent[e] \in S PROVE e \in S
  BY <1>2, StatusDef
<1>3. Entry \subseteq S
  <2> HIDE DEF S
  <2> QED BY <1>1, <1>2, TreeInduction
<1> QED BY <1>3 DEF Shown

\* The next dialog shows what this one did, if its marks are tidy: nothing else is
\* needed but that what is partly checked has a reason.
THEOREM NextDialogIsTheSame == Spec => []ReopensTheSame
<1>1. IInv => ReopensTheSame
  <2> SUFFICES ASSUME IInv, Tidy(files)
               PROVE  \A e \in Entry :
                         Shown(InitFiles(GetSelectedFiles(files)), e) = Shown(files, e)
    BY DEF ReopensTheSame
  <2> DEFINE n == InitFiles(GetSelectedFiles(files))
  <2>1. files \in Marks /\ n \in Marks BY InitTyped DEF IInv, TypeOK
  <2>2. ASSUME NEW e \in Entry
        PROVE  /\ n[e] = "Checked" <=> files[e] = "Checked"
               /\ n[e] = "Partial" <=> files[e] = "Partial"
    BY InitDef DEF GetSelectedFiles, Tidy, IInv, PartialHasReason
  <2> HIDE DEF n
  <2>3. \A e \in Entry : Shown(n, e) = Shown(files, e) BY <2>1, <2>2, ShownAlike
  <2> QED BY <2>3 DEF n
<1> QED BY <1>1, InductiveInvariant, PTL

\* With tidy marks, the files shown as checked are listed for the upload once each,
\* but for those in a directory that was shown as checked and cannot be listed by
\* then, and no others: in any tree and whichever directories those are.
THEOREM ShownIsUploaded == Spec => UploadsWhatWasShown
<1> DEFINE shown(e) == Shown(files, e) = "Checked"
           sound(f, unlisted) == shown(f) /\ \A d \in unlisted : Above(d, f) => ~shown(d)
           right == \A f \in File, unlisted \in SUBSET MayBlind :
               Cardinality(Assets(f, unlisted)') = IF sound(f, unlisted) THEN 1 ELSE 0
<1>1. TypeOK /\ [Next]_vars => (Accepted /\ Tidy(files) => right)
  <2> SUFFICES ASSUME TypeOK, Accepted, Tidy(files),
                      NEW f \in File, NEW unlisted \in SUBSET MayBlind
               PROVE  Cardinality(Assets(f, unlisted)') = IF sound(f, unlisted) THEN 1 ELSE 0
    OBVIOUS
  <2> DEFINE covers(s, e) == s = e \/ Above(s, e)
             found == {s \in GetSelectedFiles(files) :
                          \/ s = f
                          \/ /\ Above(s, f)
                             /\ \A d \in unlisted : Above(d, f) => ~(d = s \/ Above(s, d))}
  <2>1. Assets(f, unlisted)' = found BY DEF Assets, Accepted, Leave
  <2>2. f \in Entry /\ files \in Marks /\ unlisted \subseteq Entry
    BY BlindAreDirs, ParentsAreDirs DEF File, TypeOK
  <2>3. ASSUME NEW e \in Entry
        PROVE  shown(e) <=> \E s \in GetSelectedFiles(files) : covers(s, e)
    <3>1. shown(e) <=> IsChecked(files, e)
      BY <2>2, StatusDef DEF Shown, IsChecked
    <3> QED BY <2>2, <3>1, CheckedWhenTidy
  <2>4. ASSUME NEW e \in Entry, NEW s \in GetSelectedFiles(files), covers(s, f), Above(e, f)
        PROVE  shown(e) <=> covers(s, e)
    <3>1. ASSUME NEW r \in GetSelectedFiles(files), covers(r, e) PROVE r = s
      <4>1. Above(r, f) BY <2>4, <3>1, AboveTransitive
      <4> QED BY <2>4, <4>1, AboveLinear DEF Tidy, GetSelectedFiles
    <3> QED BY <2>3, <2>4, <3>1
  <2>5. ASSUME NEW s \in found PROVE sound(f, unlisted)
    <3>1. s \in GetSelectedFiles(files) /\ covers(s, f) BY <2>5
    <3>2. ASSUME NEW d \in unlisted, Above(d, f) PROVE ~covers(s, d)
      <4>1. CASE s = f BY <3>2, <4>1, AboveTransitive, AboveIrreflexive
      <4>2. CASE s # f BY <2>5, <3>2, <4>2
      <4> QED BY <4>1, <4>2
    <3> QED BY <2>2, <2>3, <2>4, <3>1, <3>2
  <2>6. ASSUME sound(f, unlisted) PROVE found # {}
    <3>1. PICK s \in GetSelectedFiles(files) : covers(s, f) BY <2>2, <2>3, <2>6
    <3>2. ASSUME NEW d \in unlisted, Above(d, f) PROVE ~covers(s, d)
      BY <2>2, <2>4, <2>6, <3>1, <3>2
    <3> QED BY <3>1, <3>2
  <2>7. \A s, r \in found : s = r
    BY AboveLinear DEF Tidy, GetSelectedFiles
  <2>8. CASE found = {}
    <3>1. ~sound(f, unlisted) BY <2>6, <2>8
    <3> QED BY <2>1, <2>8, <3>1, FS_EmptySet
  <2>9. CASE found # {}
    <3>1. PICK s : found = {s}
      <4> HIDE DEF found
      <4> QED BY <2>7, <2>9
    <3>2. sound(f, unlisted) BY <2>5, <3>1
    <3>3. Cardinality(found) = 1 BY <3>1, FS_Singleton
    <3> QED BY <2>1, <3>2, <3>3
  <2> QED BY <2>8, <2>9
<1>2. TypeOK /\ [Next]_vars => [Accepted /\ Tidy(files) => right]_vars
  BY <1>1
<1> QED BY <1>2, TypeCorrect, PTL DEF Spec, UploadsWhatWasShown


-----------------------------------------------------------------------------
(* Who makes an entry checked, whatever the marks.                         *)

\* From e upwards: y is e or above it.
From(e, y) == y = e \/ Above(y, e)

\* e is checked because of y: there is no other mark on the way.
CheckedBy(m, y, e) ==
  /\ m[y] = "Checked" /\ From(e, y)
  /\ \A z \in Entry : From(e, z) /\ Above(y, z) => m[z] \in {"none", "Unchecked"}

LEMMA CheckedDef ==
  ASSUME NEW m \in Marks, NEW f \in Entry
  PROVE  IsChecked(m, f) <=> \E y \in Entry : CheckedBy(m, y, f)
<1> DEFINE by(e) == \E y \in Entry : CheckedBy(m, y, e)
           S == {e \in Entry : GetCheckStatus(m)[e] = "Checked" <=> by(e)}
<1>1. ASSUME NEW e \in Entry, m[e] = "Checked" PROVE e \in S
  <2>1. CheckedBy(m, e, e)
    BY <1>1, AboveIrreflexive, AboveTransitive DEF CheckedBy, From
  <2> QED BY <1>1, <2>1, StatusDef
<1>2. ASSUME NEW e \in Entry, m[e] = "Partial" PROVE e \in S
  <2>1. ~by(e) BY <1>2 DEF CheckedBy, From
  <2> QED BY <1>2, <2>1, StatusDef
<1>3. Root \in S
  <2>1. CASE m[Root] \in {"none", "Unchecked"}
    <3>1. ~by(Root) BY <2>1, AboveDef DEF CheckedBy, From
    <3> QED BY <2>1, <3>1, StatusDef
  <2> QED BY <1>1, <1>2, <2>1 DEF Marks
<1>4. ASSUME NEW e \in Entry \ {Root}, Parent[e] \in S PROVE e \in S
  <2>1. CASE m[e] \in {"none", "Unchecked"}
    <3>1. \A z : From(e, z) <=> z = e \/ From(Parent[e], z) BY AboveDef DEF From
    <3>2. \A y \in Entry : CheckedBy(m, y, e) <=> CheckedBy(m, y, Parent[e])
      BY <2>1, <3>1 DEF CheckedBy
    <3>3. GetCheckStatus(m)[e] = GetCheckStatus(m)[Parent[e]] BY <2>1, StatusDef
    <3> QED BY <1>4, <3>2, <3>3
  <2> QED BY <1>1, <1>2, <2>1 DEF Marks
<1>5. Entry \subseteq S
  <2> HIDE DEF S
  <2> QED BY <1>3, <1>4, TreeInduction
<1> QED BY <1>5 DEF IsChecked

\* Clearing what is in an entry does not change whether it is checked itself.
LEMMA ClearDownDef ==
  ASSUME NEW m \in Marks, NEW e \in Entry
  PROVE  /\ \A y \in Entry :
               \/ ClearDown(m, e)[y] = m[y]
               \/ ClearDown(m, e)[y] = "none" /\ y \in ListDirectory(e)
         /\ \A y \in Entry : From(e, y) => ClearDown(m, e)[y] = m[y]
         /\ IsChecked(ClearDown(m, e), e) <=> IsChecked(m, e)
<1> DEFINE c == ClearDown(m, e)
<1>1. \A y \in Entry : c[y] = m[y] \/ (c[y] = "none" /\ y \in ListDirectory(e))
  BY DEF ClearDown, Marks
<1>2. \A y \in Entry : From(e, y) => c[y] = m[y]
  BY <1>1, ListedDef, AboveIrreflexive, AboveTransitive DEF From
<1>3. c \in Marks BY ClickTyped
<1> HIDE DEF c
<1>4. \A y \in Entry : CheckedBy(c, y, e) <=> CheckedBy(m, y, e)
  BY <1>2 DEF CheckedBy
<1>5. IsChecked(c, e) <=> IsChecked(m, e)
  BY <1>3, <1>4, CheckedDef
<1> QED BY <1>1, <1>2, <1>5 DEF c

\* The directories above an entry that is sighted list what is on the way to it.
LEMMA OnTheWay ==
  ASSUME NEW e \in Entry, Sighted(e), NEW x \in Entry \ {Root}, From(e, x)
  PROVE  /\ From(e, Parent[x]) /\ Above(Parent[x], e)
         /\ \A y \in Entry \ {Root} : Parent[y] = Parent[x] => y \in ListDirectory(Parent[x])
<1>1. Above(Parent[x], e) BY AboveDef, AboveTransitive DEF From
<1>2. Parent[x] \notin blind BY <1>1 DEF Sighted
<1> QED BY <1>1, <1>2 DEF From, ListDirectory

\* The root is above everything else.
LEMMA RootIsAbove == \A e \in Entry : From(e, Root)
<1> DEFINE S == {e \in Entry : From(e, Root)}
<1>1. Root \in S BY DEF From
<1>2. ASSUME NEW e \in Entry \ {Root}, Parent[e] \in S PROVE e \in S
  BY <1>2, AboveDef DEF From
<1>3. Entry \subseteq S
  <2> HIDE DEF S
  <2> QED BY <1>1, <1>2, TreeInduction
<1> QED BY <1>3

\* Between an entry and one above it is what is above the one and below the other.
LEMMA Between ==
  ASSUME NEW e \in Entry, NEW x \in Entry \ {Root}, From(e, x), NEW s, Above(s, e)
  PROVE  From(s, Parent[x]) <=> s = Parent[x] \/ From(s, x)
<1>1. Above(Parent[x], x) BY AboveDef
<1>2. Above(s, x) => s = Parent[x] \/ Above(s, Parent[x]) BY AboveDef
<1>3. s = x \/ Above(s, x) \/ Above(x, s)
  BY AboveLinear DEF From
<1> QED BY <1>1, <1>2, <1>3, AboveTransitive, AboveIrreflexive DEF From

-----------------------------------------------------------------------------
(* Unchecking: no directory on the way up gets checked, those that were    *)
(* are not any more, and nothing else changes.                             *)

\* _propagateUp is at x, on the way up from e.
UncheckedUpTo(t, e, n, x) ==
  /\ From(e, x) /\ n[x] # "Checked"
  /\ \A s \in Entry : n[s] = "Checked" <=> t[s] = "Checked" /\ ~(Above(s, e) /\ From(s, x))

LEMMA UncheckingUp ==
  ASSUME NEW t \in Marks, NEW e \in Entry, Sighted(e), t[e] # "Checked"
  PROVE  \A s \in Entry : PropagateUp(t, e)[s] = "Checked" <=> t[s] = "Checked" /\ ~Above(s, e)
<1> DEFINE R == {r \in Marks \X Entry : UncheckedUpTo(t, e, r[1], r[2])}
<1>1. \A n \in Marks, x \in Entry : <<n, x>> \in R <=> UncheckedUpTo(t, e, n, x) OBVIOUS
<1>2. <<t, e>> \in R
  <2>1. UncheckedUpTo(t, e, t, e)
    BY AboveIrreflexive, AboveTransitive DEF UncheckedUpTo, From
  <2> QED BY <1>1, <2>1
<1> HIDE DEF R
<1>3. ASSUME NEW n \in Marks, NEW x \in Entry \ {Root}, <<n, x>> \in R
      PROVE  <<PropagateOnce(n, x), Parent[x]>> \in R
  <2> DEFINE p == Parent[x]
             o == PropagateOnce(n, x)
  <2>1. UncheckedUpTo(t, e, n, x) BY <1>1, <1>3
  <2>2. From(e, p) /\ Above(p, e) /\ x \in ListDirectory(p)
    BY <2>1, OnTheWay DEF UncheckedUpTo
  <2>3. ~AllChecked(n, p) BY <2>1, <2>2 DEF AllChecked, UncheckedUpTo
  <2>4. o[p] # "Checked" /\ \A s \in Entry : s # p => o[s] = n[s]
    BY <2>3, OneStepDef DEF Marks
  <2> HIDE DEF o
  <2>5. ASSUME NEW s \in Entry
        PROVE  o[s] = "Checked" <=> t[s] = "Checked" /\ ~(Above(s, e) /\ From(s, p))
    <3>1. CASE s = p BY <2>2, <2>4, <3>1 DEF From
    <3>2. CASE s # p
      <4>1. Above(s, e) => (From(s, p) <=> From(s, x))
        BY <2>1, <3>2, Between DEF UncheckedUpTo
      <4> QED BY <2>1, <2>4, <3>2, <4>1 DEF UncheckedUpTo
    <3> QED BY <3>1, <3>2
  <2>6. UncheckedUpTo(t, e, o, p) BY <2>2, <2>4, <2>5 DEF UncheckedUpTo
  <2> QED BY <1>1, <2>6, OneStepTyped DEF o
<1>4. <<PropagateUp(t, e), Root>> \in R BY <1>2, <1>3, UpInduction
<1>5. UncheckedUpTo(t, e, PropagateUp(t, e), Root) BY <1>1, <1>4, PropagatedDef
<1> QED BY <1>5, RootIsAbove DEF UncheckedUpTo


-----------------------------------------------------------------------------
(* Checking: the entry stays checked, by itself or by a directory in which *)
(* everything is checked.                                                  *)

\* On the way up from e, e is checked because of something no higher than x.
CheckedUpTo(e, n, x) ==
  /\ From(e, x)
  /\ \E y \in Entry : CheckedBy(n, y, e) /\ From(y, x)

LEMMA CheckingUp ==
  ASSUME NEW e \in Entry, NEW t \in Marks, NEW from \in Entry, CheckedUpTo(e, t, from)
  PROVE  IsChecked(PropagateUp(t, from), e)
<1> DEFINE R == {r \in Marks \X Entry : CheckedUpTo(e, r[1], r[2])}
<1>1. \A n \in Marks, x \in Entry : <<n, x>> \in R <=> CheckedUpTo(e, n, x) OBVIOUS
<1>2. <<t, from>> \in R BY <1>1
<1> HIDE DEF R
<1>3. ASSUME NEW n \in Marks, NEW x \in Entry \ {Root}, <<n, x>> \in R
      PROVE  <<PropagateOnce(n, x), Parent[x]>> \in R
  <2> DEFINE p == Parent[x]
             o == PropagateOnce(n, x)
  <2>1. CheckedUpTo(e, n, x) BY <1>1, <1>3
  <2>2. /\ From(e, p) /\ Above(p, e)
        /\ Above(p, x) /\ ~Above(p, p) /\ p \in Entry
    BY <2>1, AboveDef, AboveTransitive, AboveIrreflexive DEF CheckedUpTo, From
  <2>3. PICK y \in Entry : CheckedBy(n, y, e) /\ From(y, x)
    BY <2>1 DEF CheckedUpTo
  <2>4. Above(p, y) /\ From(y, p)
    BY <2>2, <2>3, AboveTransitive DEF From
  <2>5. \A z \in Entry : From(e, z) /\ (z = y \/ Above(y, z)) => z # p
    BY <2>2, <2>4, AboveTransitive DEF From
  <2>6. ASSUME NEW z \in Entry, From(e, z), z \in ListDirectory(p) PROVE z = x
    <3>1. z \in Entry \ {Root} /\ Parent[z] = p BY <2>6, ListedDef
    <3>2. (z = e \/ Above(z, e)) /\ (x = e \/ Above(x, e))
      BY <2>1, <2>6 DEF From, CheckedUpTo
    <3> QED BY <3>1, <3>2, SiblingsApart
  <2>7. o[p] = "Checked" \/ \A z \in Entry : z # p => o[z] = n[z]
    <3>1. p \notin ListDirectory(p) BY ListedDef
    <3>2. CASE AllChecked(n, p) BY <2>2, <3>1, <3>2, OneStepDef
    <3>3. CASE ~AllChecked(n, p) BY <3>3, OneStepDef DEF Marks
    <3> QED BY <3>2, <3>3
  <2>8. \A z \in Entry : z # p => o[z] = n[z] \/ (o[z] = "Unchecked" /\ z \in ListDirectory(p))
    BY OneStepDef DEF Marks
  <2>9. x # p /\ (o[x] # n[x] => o[p] = "Checked")
    BY <2>2, <2>7
  <2> HIDE DEF o
  <2>10. CASE y # x \/ o[x] = n[x]
    <3>1. ~Above(y, x) BY <2>3, AboveIrreflexive, AboveTransitive DEF From
    <3>2. CheckedBy(o, y, e)
      BY <2>3, <2>5, <2>6, <2>8, <2>10 DEF CheckedBy
    <3> QED BY <1>1, <2>2, <2>4, <3>2, OneStepTyped DEF CheckedUpTo, o
  <2>11. CASE y = x /\ o[x] # n[x]
    <3>1. o[p] = "Checked" /\ o[x] = "Unchecked" BY <2>8, <2>9, <2>11
    <3>2. ASSUME NEW z \in Entry, From(e, z), Above(p, z), z # x PROVE Above(x, z)
      <4>1. z = x \/ Above(z, x) \/ Above(x, z)
        BY <2>1, <3>2, AboveLinear DEF CheckedUpTo, From
      <4>2. ~Above(z, x)
        BY <3>2, AboveDef, AboveIrreflexive, AboveTransitive
      <4> QED BY <3>2, <4>1, <4>2
    <3>3. CheckedBy(o, p, e)
      BY <2>2, <2>3, <2>8, <2>11, <3>1, <3>2 DEF CheckedBy
    <3> QED BY <1>1, <2>2, <3>3, OneStepTyped DEF CheckedUpTo, From, o
  <2> QED BY <2>10, <2>11
<1>4. <<PropagateUp(t, from), Root>> \in R BY <1>2, <1>3, UpInduction
<1>5. PropagateUp(t, from) \in Marks BY PropagatedDef
<1> QED BY <1>1, <1>4, <1>5, CheckedDef DEF CheckedUpTo

\* What a click does before it goes up.
LEMMA ToggleDef ==
  ASSUME NEW m \in Marks, NEW e \in Entry, NEW t, t = Toggle(ClearDown(m, e), e)
  PROVE  /\ ~IsChecked(m, e) => t = [ClearDown(m, e) EXCEPT ![e] = "Checked"]
         /\ IsChecked(m, e) => t[e] = "Unchecked"
         /\ IsChecked(m, e) /\ m[e] = "Checked" =>
               t = [ClearDown(m, e) EXCEPT ![e] = "Unchecked"]
         /\ IsChecked(m, e) /\ m[e] # "Checked" =>
               t = [y \in Entry |-> IF y = e THEN "Unchecked"
                                    ELSE IF y \in ListDirectory(Parent[e]) THEN "Checked"
                                    ELSE ClearDown(m, e)[y]]
<1> DEFINE c == ClearDown(m, e)
<1>1. c \in Marks BY ClickTyped
<1>2. c[e] = m[e] /\ (IsChecked(c, e) <=> IsChecked(m, e)) BY ClearDownDef DEF From
<1>3. IsChecked(m, e) => m[e] # "Partial" BY StatusDef DEF IsChecked
<1>4. m[e] \in {"none", "Unchecked", "Partial", "Checked"} BY DEF Marks
<1>5. IsChecked(m, e) => (Get(c, e) = "Unchecked" <=> m[e] # "Checked")
  BY <1>2, <1>3, <1>4 DEF Get
<1> HIDE DEF c
<1>6. t = Toggle(c, e) BY DEF c
<1>7. ~IsChecked(m, e) => t = [c EXCEPT ![e] = "Checked"]
  BY <1>2, <1>6 DEF Toggle
<1>8. IsChecked(m, e) /\ m[e] = "Checked" => t = [c EXCEPT ![e] = "Unchecked"]
  BY <1>2, <1>5, <1>6 DEF Toggle
<1>9. IsChecked(m, e) /\ m[e] # "Checked" =>
         t = [y \in Entry |-> IF y = e THEN "Unchecked"
                              ELSE IF y \in ListDirectory(Parent[e]) THEN "Checked" ELSE c[y]]
  BY <1>2, <1>5, <1>6 DEF Toggle, SetStatusSideways
<1> QED BY <1>1, <1>7, <1>8, <1>9 DEF c, Marks

\* A click checks what is not checked, and unchecks what is, if it is sighted.
LEMMA ClickTogglesIt ==
  ASSUME NEW m \in Marks, NEW e \in Entry
  PROVE  /\ ~IsChecked(m, e) => IsChecked(AfterClick(m, e), e)
         /\ IsChecked(m, e) /\ Sighted(e) => ~IsChecked(AfterClick(m, e), e)
<1> DEFINE t == Toggle(ClearDown(m, e), e)
<1>1. t \in Marks /\ ClearDown(m, e) \in Marks /\ AfterClick(m, e) = PropagateUp(t, e)
  BY ClickTyped DEF AfterClick
<1>2. ~IsChecked(m, e) => t[e] = "Checked" BY <1>1, ToggleDef DEF Marks
<1>3. IsChecked(m, e) => t[e] = "Unchecked" BY ToggleDef
<1> HIDE DEF t
<1>4. ASSUME ~IsChecked(m, e) PROVE IsChecked(AfterClick(m, e), e)
  <2>1. CheckedBy(t, e, e)
    BY <1>2, <1>4, AboveIrreflexive, AboveTransitive DEF CheckedBy, From
  <2>2. CheckedUpTo(e, t, e) BY <2>1 DEF CheckedUpTo, From
  <2> QED BY <1>1, <2>2, CheckingUp
<1>5. ASSUME IsChecked(m, e), Sighted(e) PROVE ~IsChecked(AfterClick(m, e), e)
  <2>1. \A y \in Entry : AfterClick(m, e)[y] = "Checked" => ~From(e, y)
    BY <1>1, <1>3, <1>5, UncheckingUp DEF From
  <2> QED BY <2>1, ClickTyped, CheckedDef DEF CheckedBy
<1> QED BY <1>4, <1>5

\* A click in a directory that cannot be listed leaves it and the entry checked.
LEMMA BlindIsChecked ==
  ASSUME NEW m \in Marks, NEW e \in Entry \ {Root}, Parent[e] \in blind,
         NEW x \in {e, Parent[e]}
  PROVE  IsChecked(AfterClick(m, e), x)
<1> DEFINE t == Toggle(ClearDown(m, e), e)
           p == Parent[e]
           o == PropagateOnce(t, e)
<1>1. t \in Marks /\ AfterClick(m, e) = PropagateUp(t, e) BY ClickTyped DEF AfterClick
<1>2. t[e] \in {"Checked", "Unchecked"}
  BY ToggleDef, ClickTyped DEF Marks
<1> HIDE DEF t
<1>3. p \in Entry /\ x \in Entry /\ Above(p, e) /\ ~Above(p, p) /\ ListDirectory(p) = {}
  BY AboveDef, AboveIrreflexive DEF ListDirectory
<1>4. o = [y \in Entry |-> IF y = p THEN "Checked" ELSE t[y]]
  BY <1>1, <1>3, OneStepDef DEF AllChecked
<1>5. o \in Marks /\ AfterClick(m, e) = PropagateUp(o, p)
  BY <1>1, OneStepTyped, PropagatedDef
<1> HIDE DEF o
<1>6. o[p] = "Checked" /\ o[e] \in {"Checked", "Unchecked"}
  BY <1>2, <1>3, <1>4
<1>7. CASE o[x] = "Checked"
  <2>1. CheckedBy(o, x, x)
    BY <1>3, <1>7, AboveIrreflexive, AboveTransitive DEF CheckedBy, From
  <2>2. CheckedUpTo(x, o, p) BY <1>3, <2>1 DEF CheckedUpTo, From
  <2> QED BY <1>3, <1>5, <2>2, CheckingUp
<1>8. CASE o[x] # "Checked"
  <2>1. x = e /\ o[e] = "Unchecked" BY <1>6, <1>8
  <2>2. ASSUME NEW z \in Entry, From(e, z), Above(p, z) PROVE z = e
    BY <2>2, AboveDef, AboveTransitive, AboveIrreflexive DEF From
  <2>3. CheckedBy(o, p, e) BY <1>3, <1>6, <2>1, <2>2 DEF CheckedBy, From
  <2>4. CheckedUpTo(e, o, p) BY <1>3, <2>3 DEF CheckedUpTo, From
  <2> QED BY <1>3, <1>5, <2>1, <2>4, CheckingUp
<1> QED BY <1>7, <1>8

-----------------------------------------------------------------------------
(* Tidy marks stay tidy, but for what clicks leave behind.                 *)

Unmarked(m, e) == m[e] \in {"none", "Unchecked"}

\* While _propagateUp is at x, the directories above x need not be right yet.
TidyUpTo(e, m, x) ==
  /\ From(e, x)
  /\ \A d, y \in Entry : ~Above(d, x) /\ Above(d, y) =>
        /\ m[d] = "Checked" => Unmarked(m, y)
        /\ m[y] = "Checked" => m[d] = "Partial"

LEMMA OneStepTidies ==
  ASSUME NEW m \in Marks, NEW e \in Entry, Sighted(e), NEW x \in Entry \ {Root},
         TidyUpTo(e, m, x)
  PROVE  TidyUpTo(e, PropagateOnce(m, x), Parent[x])
<1> DEFINE p == Parent[x]
           n == PropagateOnce(m, x)
           L == ListDirectory(p)
<1>1. /\ From(e, p) /\ p \in Entry /\ Above(p, x) /\ ~Above(p, p)
      /\ \A y \in Entry \ {Root} : Parent[y] = p => y \in L
  BY OnTheWay, AboveDef, AboveIrreflexive DEF TidyUpTo
<1>2. ASSUME NEW y \in L
      PROVE  /\ y \in Entry /\ y # p /\ Above(p, y) /\ ~Above(y, x)
             /\ \A d : Above(d, y) => d = p \/ Above(d, p)
  <2>1. y \in Entry \ {Root} /\ Parent[y] = p /\ Above(p, y) /\ y # p BY ListedDef
  <2>2. \A d : Above(d, y) => d = p \/ Above(d, p) BY <2>1, AboveDef
  <2>3. Above(y, x) => y = p \/ Above(y, p) BY AboveDef
  <2>4. ~Above(y, x) BY <1>1, <2>1, <2>3, AboveTransitive
  <2> QED BY <2>1, <2>2, <2>4
<1>3. \A d, y \in Entry : ~Above(d, x) /\ Above(d, y) =>
          /\ m[d] = "Checked" => Unmarked(m, y)
          /\ m[y] = "Checked" => m[d] = "Partial"
  BY DEF TidyUpTo
<1>4. ASSUME NEW y \in Entry, Above(p, y) PROVE y \in L \/ \E k \in L : Above(k, y)
  BY <1>1, <1>4, ChildTowards
<1>5. ASSUME NEW d \in Entry, d # p, ~Above(d, p) PROVE ~Above(d, x)
  BY <1>5, AboveDef
<1> HIDE DEF p, L
<1>6. CASE /\ AllChecked(m, p)
           /\ n = [y \in Entry |-> IF y \in L THEN "Unchecked"
                                  ELSE IF y = p THEN "Checked" ELSE m[y]]
  <2>1. ASSUME NEW y \in Entry, Above(p, y) PROVE Unmarked(n, y)
    <3>1. CASE y \in L BY <1>6, <3>1 DEF Unmarked
    <3>2. CASE y \notin L
      <4>1. PICK k \in L : Above(k, y) BY <1>4, <2>1, <3>2
      <4>2. m[k] = "Checked" BY <1>6 DEF AllChecked, L
      <4>3. Unmarked(m, y) BY <1>2, <1>3, <4>1, <4>2
      <4>4. y # p BY <1>1, <2>1
      <4> QED BY <1>6, <3>2, <4>3, <4>4 DEF Unmarked
    <3> QED BY <3>1, <3>2
  <2>2. ASSUME NEW d \in Entry, NEW y \in Entry, ~Above(d, p), Above(d, y), d # p
        PROVE  /\ n[d] = "Checked" => Unmarked(n, y)
               /\ n[y] = "Checked" => n[d] = "Partial"
    <3>1. y # p /\ ~Above(d, x) BY <1>5, <2>2
    <3>2. y \notin L BY <1>2, <2>2
    <3>3. n[y] = m[y] BY <1>6, <3>1, <3>2
    <3>4. n[d] = m[d] \/ (d \in L /\ n[d] = "Unchecked") BY <1>6, <2>2
    <3>5. d \in L => m[d] = "Checked" BY <1>6 DEF AllChecked, L
    <3> QED BY <1>3, <2>2, <3>1, <3>3, <3>4, <3>5 DEF Unmarked
  <2>3. ASSUME NEW y \in Entry, Above(p, y) PROVE n[y] # "Checked"
    BY <2>1, <2>3 DEF Unmarked
  <2> HIDE DEF n
  <2>4. TidyUpTo(e, n, p) BY <1>1, <2>1, <2>2, <2>3 DEF TidyUpTo
  <2> QED BY <2>4 DEF n, p
<1>7. CASE ~AllChecked(m, p) /\ n = [m EXCEPT ![p] = "Unchecked"] /\ AllUnchecked(m, p)
  <2>1. ASSUME NEW y \in Entry, Above(p, y) PROVE n[y] # "Checked"
    <3>1. m[y] # "Checked"
      <4>1. CASE y \in L BY <1>7, <4>1 DEF AllUnchecked, L
      <4>2. ASSUME NEW k \in L, Above(k, y) PROVE m[y] # "Checked"
        <5>1. m[k] # "Partial" BY <1>7 DEF AllUnchecked, L
        <5> QED BY <1>2, <1>3, <4>2, <5>1
      <4> QED BY <1>4, <2>1, <4>1, <4>2
    <3> QED BY <1>1, <1>7, <2>1, <3>1 DEF Marks
  <2>2. n[p] = "Unchecked" /\ \A y \in Entry : y # p => n[y] = m[y]
    BY <1>1, <1>7 DEF Marks
  <2> HIDE DEF n
  <2>3. TidyUpTo(e, n, p) BY <1>1, <1>3, <1>5, <2>1, <2>2 DEF TidyUpTo, Unmarked
  <2> QED BY <2>3 DEF n, p
<1>8. CASE ~AllChecked(m, p) /\ n = [m EXCEPT ![p] = "Partial"]
  <2>1. n[p] = "Partial" /\ \A y \in Entry : y # p => n[y] = m[y]
    BY <1>1, <1>8 DEF Marks
  <2> HIDE DEF n
  <2>2. TidyUpTo(e, n, p) BY <1>1, <1>3, <1>5, <2>1 DEF TidyUpTo, Unmarked
  <2> QED BY <2>2 DEF n, p
<1> QED BY <1>6, <1>7, <1>8, OneStepDef DEF n, p, L

\* There is nothing below what is in e that a click on e would leave behind.
NothingDeep(m, e) ==
  \A x \in Entry : Above(e, x) /\ Parent[x] # e => m[x] \notin {"Partial", "Checked"}

\* The click clears what is below its entry.
LEMMA ClearDownClears ==
  ASSUME NEW m \in Marks, NEW e \in Entry, Sighted(e), Tidy(m), NothingDeep(m, e),
         \A d \in Entry : m[d] = "Partial" => Reason(m, d)
  PROVE  \A y \in Entry : Above(e, y) => Unmarked(ClearDown(m, e), y)
<1> DEFINE c == ClearDown(m, e)
<1>1. SUFFICES ASSUME NEW y \in Entry, Above(e, y) PROVE Unmarked(c, y)
  OBVIOUS
<1>2. CASE Parent[y] # e
  BY <1>1, <1>2, ClearDownDef DEF NothingDeep, Unmarked, Marks
<1>3. CASE Parent[y] = e
  <2>1. e \in Dir /\ y \in ListDirectory(e)
    BY <1>1, <1>3, AboveDef DEF Sighted, ListDirectory
  <2>2. CASE m[e] # "none"
    BY <2>1, <2>2 DEF ClearDown, Marks, Unmarked
  <2>3. CASE m[e] = "none"
    <3>1. c = m BY <2>3 DEF ClearDown
    <3>2. m[y] # "Checked" BY <1>1, <2>3 DEF Tidy
    <3>3. m[y] # "Partial"
      <4> SUFFICES ASSUME m[y] = "Partial" PROVE FALSE
        OBVIOUS
      <4>1. PICK z \in Entry : Above(y, z) /\ m[z] = "Checked" BY DEF Reason
      <4>2. Above(e, z) BY <1>1, <4>1, AboveTransitive
      <4> QED BY <2>3, <4>1, <4>2 DEF Tidy
    <3> QED BY <3>1, <3>2, <3>3 DEF Marks, Unmarked
  <2> QED BY <2>2, <2>3
<1> QED BY <1>2, <1>3


LEMMA ToggleTidies ==
  ASSUME NEW m \in Marks, NEW e \in Entry, Sighted(e), Tidy(m), NothingDeep(m, e),
         \A d \in Entry : m[d] = "Partial" => Reason(m, d)
  PROVE  TidyUpTo(e, Toggle(ClearDown(m, e), e), e)
<1> DEFINE c == ClearDown(m, e)
           t == Toggle(c, e)
           p == Parent[e]
<1>1. \A y \in Entry : Above(e, y) => Unmarked(c, y) BY ClearDownClears
<1>2. \A y \in Entry : c[y] = m[y] \/ Unmarked(c, y)
  BY ClearDownDef DEF Unmarked
<1>3. \A y \in Entry : From(e, y) \/ ~Above(e, y) => c[y] = m[y]
  BY ClearDownDef, ListedDef
<1>4. ~Above(e, e) BY AboveIrreflexive
<1>5. c \in Marks BY ClickTyped
<1>6. ASSUME NEW d \in Entry, NEW y \in Entry, Above(d, y)
      PROVE  /\ c[d] = "Checked" => Unmarked(c, y)
             /\ c[y] = "Checked" => c[d] = "Partial"
  <2>1. Above(e, d) => Above(e, y) BY <1>6, AboveTransitive
  <2>2. c[d] = "Checked" => m[d] = "Checked" BY <1>2 DEF Unmarked
  <2>3. c[y] = "Checked" => m[y] = "Checked" /\ ~Above(e, y) BY <1>1, <1>2 DEF Unmarked
  <2> QED BY <1>2, <1>3, <1>6, <2>1, <2>2, <2>3 DEF Tidy, Unmarked
<1>7. CASE ~IsChecked(m, e)
  <2>1. t = [c EXCEPT ![e] = "Checked"] BY <1>7, ToggleDef
  <2>2. t[e] = "Checked" /\ \A y \in Entry : y # e => t[y] = c[y]
    BY <1>5, <2>1 DEF Marks
  <2>3. \A s \in Entry : From(e, s) => m[s] # "Checked"
    BY <1>7, CheckedWhenTidy DEF GetSelectedFiles, From
  <2>4. \A s \in Entry : From(e, s) => c[s] # "Checked"
    BY <1>3, <2>3
  <2> HIDE DEF t, c
  <2>5. TidyUpTo(e, t, e)
    BY <1>1, <1>4, <1>6, <2>2, <2>4 DEF TidyUpTo, From, Unmarked
  <2> QED BY <2>5 DEF t, c
<1>8. CASE IsChecked(m, e) /\ m[e] = "Checked"
  <2>1. t = [c EXCEPT ![e] = "Unchecked"] BY <1>8, ToggleDef
  <2>2. t[e] = "Unchecked" /\ \A y \in Entry : y # e => t[y] = c[y]
    BY <1>5, <2>1 DEF Marks
  <2> HIDE DEF t, c
  <2>3. TidyUpTo(e, t, e)
    BY <1>1, <1>4, <1>6, <2>2 DEF TidyUpTo, From, Unmarked
  <2> QED BY <2>3 DEF t, c
<1>9. CASE IsChecked(m, e) /\ m[e] # "Checked"
  <2>1. t = [y \in Entry |-> IF y = e THEN "Unchecked"
                             ELSE IF y \in ListDirectory(p) THEN "Checked" ELSE c[y]]
    BY <1>9, ToggleDef
  <2>2. PICK s \in Entry : m[s] = "Checked" /\ Above(s, e)
    BY <1>9, CheckedWhenTidy DEF GetSelectedFiles
  <2>3. e # Root /\ (s = p \/ Above(s, p)) BY <2>2, AboveDef
  <2>4. \A k : k \in ListDirectory(p) =>
            Above(s, k) /\ k \in Entry /\ ~Above(k, e) /\ \A d : Above(d, k) => Above(d, e)
    <3> SUFFICES ASSUME NEW k, k \in ListDirectory(p)
                 PROVE  Above(s, k) /\ k \in Entry /\ ~Above(k, e) /\
                        \A d : Above(d, k) => Above(d, e)
      OBVIOUS
    <3>1. k \in Entry \ {Root} /\ Parent[k] = p /\ Above(p, k) BY ListedDef
    <3>2. \A d : Above(d, k) => Above(d, e) BY <2>3, <3>1, AboveDef
    <3>3. ~Above(k, e)
      <4>1. Above(k, e) => k = e BY <2>3, <3>1, SiblingsApart
      <4> QED BY <1>4, <4>1
    <3> QED BY <2>3, <3>1, <3>2, <3>3, AboveTransitive
  <2>5. \A k \in ListDirectory(p), y \in Entry : Above(k, y) => Unmarked(c, y)
    <3> SUFFICES ASSUME NEW k \in ListDirectory(p), NEW y \in Entry, Above(k, y)
                 PROVE  Unmarked(c, y)
      OBVIOUS
    <3>1. Above(s, y) BY <2>4, AboveTransitive
    <3>2. Unmarked(m, y) BY <2>2, <3>1 DEF Tidy, Unmarked
    <3> QED BY <1>2, <3>2 DEF Unmarked
  <2>6. \A k, y \in ListDirectory(p) : ~Above(k, y)
    BY <2>4
  <2>7. /\ t[e] = "Unchecked"
        /\ \A y \in Entry : y # e /\ y \in ListDirectory(p) => t[y] = "Checked"
        /\ \A y \in Entry : y # e /\ y \notin ListDirectory(p) => t[y] = c[y]
    BY <2>1
  <2> HIDE DEF t, c, p
  <2>8. ASSUME NEW d \in Entry, NEW y \in Entry, ~Above(d, e), Above(d, y)
        PROVE  /\ t[d] = "Checked" => Unmarked(t, y)
               /\ t[y] = "Checked" => t[d] = "Partial"
    <3>1. y \notin ListDirectory(p) BY <2>4, <2>8
    <3>2. y # e BY <2>8
    <3>3. t[y] = c[y] BY <2>7, <3>1, <3>2
    <3>4. CASE d = e \/ d \in ListDirectory(p)
      <4>1. Unmarked(c, y) BY <1>1, <2>5, <2>8, <3>4
      <4> QED BY <3>3, <4>1 DEF Unmarked
    <3>5. CASE d # e /\ d \notin ListDirectory(p)
      BY <1>6, <2>7, <2>8, <3>3, <3>5 DEF Unmarked
    <3> QED BY <3>4, <3>5
  <2>9. TidyUpTo(e, t, e) BY <2>8 DEF TidyUpTo, From
  <2> QED BY <2>9 DEF t, c, p
<1> QED BY <1>7, <1>8, <1>9

LEMMA ClickStaysTidy ==
  ASSUME NEW m \in Marks, NEW e \in Entry, Sighted(e), Tidy(m), NothingDeep(m, e),
         \A d \in Entry : m[d] = "Partial" => Reason(m, d)
  PROVE  Tidy(AfterClick(m, e))
<1> DEFINE R == {r \in Marks \X Entry : TidyUpTo(e, r[1], r[2])}
           t == Toggle(ClearDown(m, e), e)
<1>1. \A n \in Marks, x \in Entry : <<n, x>> \in R <=> TidyUpTo(e, n, x) OBVIOUS
<1>2. t \in Marks /\ TidyUpTo(e, t, e) BY ToggleTidies, ClickTyped
<1> HIDE DEF R, t
<1>3. \A n \in Marks, x \in Entry \ {Root} :
          <<n, x>> \in R => <<PropagateOnce(n, x), Parent[x]>> \in R
  BY <1>1, OneStepTidies, OneStepTyped
<1>4. <<PropagateUp(t, e), Root>> \in R BY <1>1, <1>2, <1>3, UpInduction
<1>5. TidyUpTo(e, AfterClick(m, e), Root)
  BY <1>1, <1>4, ClickTyped DEF AfterClick, t
<1> QED BY <1>5, AboveDef DEF TidyUpTo, Tidy, Unmarked

\* The marks keep saying what is selected.
THEOREM MarksKeepMakingSense == Spec => []MarksMakeSense
<1>1. IInv => MarksMakeSense
  <2> SUFFICES ASSUME IInv PROVE StaysTidy
    BY DEF MarksMakeSense, IInv
  <2>1. files \in Marks /\ \A d \in Entry : files[d] = "Partial" => Reason(files, d)
    BY DEF IInv, TypeOK, PartialHasReason, Reason
  <2> SUFFICES ASSUME Tidy(files), NEW e \in Entry, Sighted(e),
                      ~\E x \in Entry : /\ Above(e, x) /\ Parent[x] # e
                                        /\ files[x] \in {"Partial", "Checked"}
               PROVE  Tidy(AfterClick(files, e))
    BY DEF StaysTidy
  <2>2. NothingDeep(files, e) BY DEF NothingDeep
  <2> QED BY <2>1, <2>2, ClickStaysTidy
<1> QED BY <1>1, InductiveInvariant, PTL


-----------------------------------------------------------------------------
(* What a click does to the selection.                                     *)

\* The selection has f.
Selected(m, f) == \E s \in Entry : m[s] = "Checked" /\ From(f, s)

LEMMA SelectionDef ==
  \A m, f : f \in Selection(m) <=> f \in File /\ Selected(m, f)
<1>1. File \subseteq Entry BY DEF File
<1> QED BY <1>1, AboveDef DEF Selection, Under, GetSelectedFiles, Selected, From

\* A directory without a checked one above it gets a mark that selects no more and
\* no less than what is in it.
LEMMA OneStepSelectsTheSame ==
  ASSUME NEW n \in Marks, NEW x \in Entry \ {Root}, NEW p, p = Parent[x],
         \A y \in Entry \ {Root} : Parent[y] = p => y \in ListDirectory(p),
         n[p] # "Checked", NEW f \in File
  PROVE  Selected(PropagateOnce(n, x), f) <=> Selected(n, f)
<1> DEFINE o == PropagateOnce(n, x)
           L == ListDirectory(p)
<1>1. p \in Dir /\ f \in Entry /\ f \notin Dir BY DEF File
<1>2. \A y \in L : y \in Entry /\ Above(p, y) BY ListedDef
<1>3. CASE /\ AllChecked(n, p)
           /\ o = [y \in Entry |-> IF y \in L THEN "Unchecked"
                                  ELSE IF y = p THEN "Checked" ELSE n[y]]
  <2>1. ASSUME Selected(n, f) PROVE Selected(o, f)
    <3>1. PICK s \in Entry : n[s] = "Checked" /\ From(f, s) BY <2>1 DEF Selected
    <3>2. CASE s \in L
      <4>1. p \notin L BY ListedDef
      <4>2. o[p] = "Checked" BY <1>1, <1>3, <4>1
      <4>3. From(f, p) BY <1>2, <3>1, <3>2, AboveTransitive DEF From
      <4> QED BY <1>1, <4>2, <4>3 DEF Selected
    <3>3. CASE s \notin L
      <4>1. o[s] = "Checked" BY <1>3, <3>1, <3>3
      <4> QED BY <3>1, <4>1 DEF Selected
    <3> QED BY <3>2, <3>3
  <2>2. ASSUME Selected(o, f) PROVE Selected(n, f)
    <3>1. PICK s \in Entry : o[s] = "Checked" /\ From(f, s) BY <2>2 DEF Selected
    <3>2. CASE s = p
      <4>1. Above(p, f) BY <1>1, <3>1, <3>2 DEF From
      <4>2. PICK k \in Entry \ {Root} : Parent[k] = p /\ From(f, k)
        BY <4>1, ChildTowards DEF From
      <4>3. n[k] = "Checked" BY <1>3, <4>2 DEF AllChecked
      <4> QED BY <4>2, <4>3 DEF Selected
    <3>3. CASE s # p
      <4>1. n[s] = "Checked" BY <1>3, <3>1, <3>3
      <4> QED BY <3>1, <4>1 DEF Selected
    <3> QED BY <3>2, <3>3
  <2> QED BY <2>1, <2>2
<1>4. CASE ~AllChecked(n, p)
  <2>1. \A s \in Entry : o[s] = "Checked" <=> n[s] = "Checked"
    BY <1>4, OneStepDef DEF Marks
  <2> HIDE DEF o
  <2>2. Selected(o, f) <=> Selected(n, f) BY <2>1 DEF Selected
  <2> QED BY <2>2 DEF o
<1> QED BY <1>3, <1>4, OneStepDef

\* So going up, if there is no checked directory on the way.
SelectsTheSame(t, e, n, x) ==
  /\ From(e, x)
  /\ \A y \in Entry : Above(y, x) => n[y] # "Checked"
  /\ \A f \in File : Selected(n, f) <=> Selected(t, f)

LEMMA SelectsTheSameUp ==
  ASSUME NEW t \in Marks, NEW e \in Entry, Sighted(e),
         \A y \in Entry : Above(y, e) => t[y] # "Checked"
  PROVE  \A f \in File : Selected(PropagateUp(t, e), f) <=> Selected(t, f)
<1> DEFINE R == {r \in Marks \X Entry : SelectsTheSame(t, e, r[1], r[2])}
<1>1. \A n \in Marks, x \in Entry : <<n, x>> \in R <=> SelectsTheSame(t, e, n, x) OBVIOUS
<1>2. <<t, e>> \in R
  <2>1. SelectsTheSame(t, e, t, e) BY DEF SelectsTheSame, From
  <2> QED BY <1>1, <2>1
<1> HIDE DEF R
<1>3. ASSUME NEW n \in Marks, NEW x \in Entry \ {Root}, <<n, x>> \in R
      PROVE  <<PropagateOnce(n, x), Parent[x]>> \in R
  <2> DEFINE p == Parent[x]
             o == PropagateOnce(n, x)
  <2>1. SelectsTheSame(t, e, n, x) BY <1>1, <1>3
  <2>2. /\ From(e, p) /\ Above(p, x) /\ p \in Entry
        /\ \A y \in Entry \ {Root} : Parent[y] = p => y \in ListDirectory(p)
    BY <2>1, OnTheWay, AboveDef DEF SelectsTheSame
  <2>3. n[p] # "Checked" BY <2>1, <2>2 DEF SelectsTheSame
  <2>4. \A f \in File : Selected(o, f) <=> Selected(t, f)
    BY <2>1, <2>2, <2>3, OneStepSelectsTheSame DEF SelectsTheSame
  <2>5. ASSUME NEW y \in Entry, Above(y, p) PROVE o[y] # "Checked"
    <3>1. n[y] # "Checked" /\ y # p
      BY <2>1, <2>2, <2>5, AboveTransitive, AboveIrreflexive DEF SelectsTheSame
    <3> QED BY <3>1, OneStepDef DEF Marks
  <2> HIDE DEF o
  <2>6. SelectsTheSame(t, e, o, p) BY <2>2, <2>4, <2>5 DEF SelectsTheSame
  <2> QED BY <1>1, <2>6, OneStepTyped DEF o
<1>4. <<PropagateUp(t, e), Root>> \in R BY <1>2, <1>3, UpInduction
<1> QED BY <1>1, <1>4, PropagatedDef DEF SelectsTheSame

\* Checking an entry selects what is below it and nothing else.
LEMMA CheckingIsExact ==
  ASSUME NEW m \in Marks, NEW e \in Entry, Sighted(e), Tidy(m), ~IsChecked(m, e)
  PROVE  Selection(AfterClick(m, e)) = Selection(m) \cup Under(e)
<1> DEFINE c == ClearDown(m, e)
           t == Toggle(c, e)
<1>1. c \in Marks /\ t \in Marks BY ClickTyped
<1>2. t = [c EXCEPT ![e] = "Checked"] BY ToggleDef
<1>3. \A y \in Entry : c[y] = m[y] \/ (c[y] = "none" /\ Above(e, y))
  BY ClearDownDef, ListedDef
<1>4. \A y \in Entry : From(e, y) => m[y] # "Checked"
  BY CheckedWhenTidy DEF GetSelectedFiles, From
<1> HIDE DEF c
<1>5. t[e] = "Checked" /\ \A y \in Entry : y # e => t[y] = c[y]
  BY <1>1, <1>2 DEF Marks
<1> HIDE DEF t
<1>6. \A y \in Entry : Above(y, e) => t[y] # "Checked"
  BY <1>3, <1>4, <1>5, AboveIrreflexive DEF From
<1>7. AfterClick(m, e) = PropagateUp(t, e) BY DEF AfterClick, c, t
<1>8. ASSUME NEW f \in File
      PROVE  Selected(t, f) <=> Selected(m, f) \/ f = e \/ Above(e, f)
  <2>1. From(f, e) => Selected(t, f) BY <1>5 DEF Selected
  <2>2. ASSUME NEW s \in Entry, m[s] = "Checked", From(f, s), ~From(f, e)
        PROVE  t[s] = "Checked"
    BY <1>3, <1>5, <2>2, AboveTransitive DEF From
  <2>3. Selected(m, f) => Selected(t, f) BY <2>1, <2>2 DEF Selected
  <2>4. Selected(t, f) => Selected(m, f) \/ From(f, e)
    BY <1>3, <1>5 DEF Selected
  <2> QED BY <2>1, <2>3, <2>4 DEF From
<1>9. \A f \in File : Selected(AfterClick(m, e), f) <=> Selected(m, f) \/ f = e \/ Above(e, f)
  BY <1>1, <1>6, <1>7, <1>8, SelectsTheSameUp
<1> QED BY <1>9, SelectionDef DEF Under


\* Unchecking an entry that is marked as checked takes out what is below it.
LEMMA UncheckingIsExact ==
  ASSUME NEW m \in Marks, NEW e \in Entry, Sighted(e), Tidy(m), m[e] = "Checked"
  PROVE  Selection(AfterClick(m, e)) = Selection(m) \ Under(e)
<1> DEFINE c == ClearDown(m, e)
           t == Toggle(c, e)
<1>1. c \in Marks /\ t \in Marks BY ClickTyped
<1>2. IsChecked(m, e) BY StatusDef DEF IsChecked
<1>3. t = [c EXCEPT ![e] = "Unchecked"] BY <1>2, ToggleDef
<1>4. \A y \in Entry : c[y] = "Checked" <=> m[y] = "Checked"
  BY ClearDownDef, ListedDef DEF Tidy
<1>5. \A y \in Entry : Above(y, e) => m[y] = "Partial" BY DEF Tidy
<1>6. AfterClick(m, e) = PropagateUp(t, e) BY DEF AfterClick
<1> HIDE DEF c
<1>7. \A y \in Entry : t[y] = "Checked" <=> m[y] = "Checked" /\ y # e
  BY <1>1, <1>3, <1>4 DEF Marks
<1> HIDE DEF t
<1>8. \A y \in Entry : AfterClick(m, e)[y] = "Checked" <=> m[y] = "Checked" /\ y # e
  BY <1>1, <1>5, <1>6, <1>7, UncheckingUp
<1>9. ASSUME NEW f \in File, NEW s \in Entry, m[s] = "Checked", From(f, s), From(f, e)
      PROVE  s = e
  BY <1>9, AboveLinear DEF From, Tidy
<1>10. \A f \in File : Selected(AfterClick(m, e), f) <=> Selected(m, f) /\ ~From(f, e)
  BY <1>8, <1>9 DEF Selected
<1> QED BY <1>10, SelectionDef DEF Under, From

\* Unchecking an entry that is checked because a directory d above it is: d loses
\* its mark, and what is beside the entry gets one.
LEMMA UncheckingBelow ==
  ASSUME NEW m \in Marks, NEW e \in Entry, Sighted(e), Tidy(m),
         NEW d \in Entry, m[d] = "Checked", Above(d, e)
  PROVE  \A s \in Entry : AfterClick(m, e)[s] = "Checked" <=>
            (m[s] = "Checked" /\ s # d) \/ (s # e /\ s \in ListDirectory(Parent[e]))
<1> DEFINE c == ClearDown(m, e)
           t == Toggle(c, e)
           p == Parent[e]
<1>1. c \in Marks /\ t \in Marks BY ClickTyped
<1>2. m[e] \in {"none", "Unchecked"} BY DEF Tidy
<1>3. IsChecked(m, e) BY CheckedWhenTidy DEF GetSelectedFiles
<1>4. t = [y \in Entry |-> IF y = e THEN "Unchecked"
                           ELSE IF y \in ListDirectory(p) THEN "Checked" ELSE c[y]]
  BY <1>2, <1>3, ToggleDef
<1>5. \A y \in Entry : Above(e, y) => m[y] # "Checked"
  BY AboveTransitive DEF Tidy
<1>6. \A y \in Entry : c[y] = "Checked" <=> m[y] = "Checked"
  BY <1>5, ClearDownDef, ListedDef
<1>7. AfterClick(m, e) = PropagateUp(t, e) BY DEF AfterClick
<1> HIDE DEF c
<1>8. \A y \in Entry : t[y] = "Checked" <=>
         y # e /\ (y \in ListDirectory(p) \/ m[y] = "Checked")
  BY <1>4, <1>6
<1>9. t[e] = "Unchecked" BY <1>4
<1> HIDE DEF t, p
<1>10. \A y \in Entry : AfterClick(m, e)[y] = "Checked" <=> t[y] = "Checked" /\ ~Above(y, e)
  BY <1>1, <1>7, <1>9, UncheckingUp
<1>11. \A y \in Entry : m[y] = "Checked" /\ Above(y, e) => y = d
  BY AboveLinear DEF Tidy
<1>12. ASSUME NEW y \in ListDirectory(p) PROVE ~Above(y, e)
  <2>1. y \in Entry \ {Root} /\ e \in Entry \ {Root} /\ Parent[y] = Parent[e]
    BY <1>12, ListedDef, AboveDef DEF p
  <2>2. Above(y, e) => y = e BY <2>1, SiblingsApart
  <2> QED BY <2>2, AboveIrreflexive
<1>13. d \notin ListDirectory(p) BY <1>12
<1> QED BY <1>2, <1>8, <1>10, <1>11, <1>12, <1>13 DEF p

\* The selection loses what is below the entry, and nothing outside d; if d is the
\* entry's directory, then nothing else.
LEMMA UncheckingBelowLoses ==
  ASSUME NEW m \in Marks, NEW e \in Entry, Sighted(e), Tidy(m),
         NEW d \in Entry, m[d] = "Checked", Above(d, e)
  PROVE  /\ Selection(AfterClick(m, e)) \subseteq Selection(m) \ Under(e)
         /\ Selection(m) \ Under(d) \subseteq Selection(AfterClick(m, e))
         /\ d = Parent[e] => Selection(AfterClick(m, e)) = Selection(m) \ Under(e)
<1> DEFINE n == AfterClick(m, e)
           p == Parent[e]
<1>1. \A s \in Entry : n[s] = "Checked" <=>
         (m[s] = "Checked" /\ s # d) \/ (s # e /\ s \in ListDirectory(p))
  BY UncheckingBelow
<1> HIDE DEF n
<1>2. e \in Entry \ {Root} /\ (d = p \/ Above(d, p)) /\ Above(p, e)
  BY AboveDef
<1>3. \A y \in Entry \ {Root} : Parent[y] = p => y \in ListDirectory(p)
  BY <1>2, OnTheWay DEF From
<1>4. \A y \in ListDirectory(p) : y \in Entry \ {Root} /\ Parent[y] = p /\ Above(d, y)
  BY <1>2, ListedDef, AboveTransitive
<1>5. \A f \in File : From(f, d) => Selected(m, f) BY DEF Selected
<1>6. ASSUME NEW f \in File, Selected(n, f) PROVE Selected(m, f) /\ ~From(f, e)
  <2>1. PICK s \in Entry : n[s] = "Checked" /\ From(f, s) BY <1>6 DEF Selected
  <2>2. CASE m[s] = "Checked" /\ s # d
    <3>1. ~Above(s, d) /\ ~Above(d, s) BY <2>2 DEF Tidy
    <3>2. From(f, e) => From(f, d) BY AboveTransitive DEF From
    <3>3. ~From(f, e) BY <2>1, <2>2, <3>1, <3>2, AboveLinear DEF From
    <3> QED BY <2>1, <2>2, <3>3 DEF Selected
  <2>3. CASE s # e /\ s \in ListDirectory(p)
    <3>1. s \in Entry \ {Root} /\ Parent[s] = Parent[e] /\ Above(d, s) BY <1>4, <2>3
    <3>2. From(f, d) BY <2>1, <3>1, AboveTransitive DEF From
    <3>3. From(f, e) => s = e BY <1>2, <2>1, <3>1, SiblingsApart DEF From
    <3> QED BY <1>5, <2>3, <3>2, <3>3
  <2> QED BY <1>1, <2>1, <2>2, <2>3
<1>7. ASSUME NEW f \in File, Selected(m, f), ~From(f, d) PROVE Selected(n, f)
  BY <1>1, <1>7 DEF Selected
<1>8. ASSUME d = p, NEW f \in File, Selected(m, f), ~From(f, e) PROVE Selected(n, f)
  <2>1. CASE From(f, d)
    <3>1. Above(p, f) BY <1>8, <2>1, AboveDef DEF From, File
    <3>2. PICK k \in Entry \ {Root} : Parent[k] = p /\ From(f, k)
      BY <3>1, ChildTowards DEF From
    <3>3. n[k] = "Checked" BY <1>1, <1>3, <1>8, <3>2
    <3> QED BY <3>2, <3>3 DEF Selected
  <2> QED BY <1>7, <1>8, <2>1
<1>9. \A x : Under(x) = {f \in File : From(f, x)} BY DEF Under, From
<1>10. \A f : f \in Selection(n) <=> f \in File /\ Selected(n, f) BY SelectionDef
<1>11. \A f : f \in Selection(m) <=> f \in File /\ Selected(m, f) BY SelectionDef
<1>12. Selection(n) \subseteq Selection(m) \ Under(e) BY <1>6, <1>9, <1>10, <1>11
<1>13. Selection(m) \ Under(d) \subseteq Selection(n) BY <1>7, <1>9, <1>10, <1>11
<1>14. d = p => Selection(m) \ Under(e) \subseteq Selection(n)
  BY <1>8, <1>9, <1>10, <1>11
<1> QED BY <1>12, <1>13, <1>14 DEF n

\* A click does to the selection what it says, in every tree and with any of the
\* directories unlisted that are not on the way to the entry.
THEOREM ClicksAreRight == Spec => []ClickIsRight
<1>1. TypeOK => ClickIsRight
  <2> SUFFICES ASSUME TypeOK PROVE ClickIsRight
    OBVIOUS
  <2>1. files \in Marks BY DEF TypeOK
  <2>2. ClickToggles /\ BlindCountsAsChecked
    BY <2>1, ClickTogglesIt, BlindIsChecked DEF ClickToggles, BlindCountsAsChecked
  <2>3. ClickIsExact
    <3> SUFFICES ASSUME Tidy(files), NEW e \in Entry, Sighted(e)
                 PROVE  LET then == Selection(AfterClick(files, e))
                        IN  /\ ~IsChecked(files, e) => then = Selection(files) \cup Under(e)
                            /\ "Checked" \in {files[e], files[Parent[e]]}
                                  => then = Selection(files) \ Under(e)
      BY DEF ClickIsExact
    <3>1. ASSUME files[e] # "Checked", files[Parent[e]] = "Checked"
          PROVE  Parent[e] \in Entry /\ Above(Parent[e], e)
      BY <3>1, AboveDef
    <3> QED BY <2>1, <3>1, CheckingIsExact, UncheckingIsExact, UncheckingBelowLoses
  <2>4. UncheckLosesInside
    BY <2>1, UncheckingBelowLoses DEF UncheckLosesInside
  <2> QED BY <2>2, <2>3, <2>4 DEF ClickIsRight
<1> QED BY <1>1, TypeCorrect, PTL
=============================================================================
