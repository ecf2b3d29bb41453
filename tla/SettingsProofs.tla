--------------------------- MODULE SettingsProofs ---------------------------
(***************************************************************************)
(* Proofs about Settings, for any processes, keys and number of puts.      *)
(*                                                                         *)
(* The types are inductive by themselves.  What is broken and what is lost *)
(* rest on what a process knows while it saves: if it is alone the file is *)
(* empty and nobody else's, if it is not the file counts as harmed.        *)
(***************************************************************************)
EXTENDS Settings, TLAPS

\* A process that saves alone has the empty file for itself, and one that is not
\* alone has a file that counts as harmed.
SaversKnow ==
    \A p \in Process, f \in File : Saving(p, f) =>
        IF alone[p]
        THEN state[f] = "empty" /\ \A q \in Process \ {p} : ~Saving(q, f)
        ELSE f \in harmed

\* A fresh copy has nothing that is older than what was saved last.
FreshIsNew ==
    \A p \in Process, k \in Key :
        FileOf[k] \in fresh[p] \ undone => copy[p][k] >= last[k]

\* No put was saved that was not made.
PutsBound ==
    \A k \in Key : /\ last[k] <= puts
                   /\ \A p \in Process : copy[p][k] <= puts
                   /\ \A f \in File : text[f][k] <= puts

\* The inductive invariant.
IInv ==
    /\ TypeOK /\ PutsBound /\ SaversKnow /\ FreshIsNew
    /\ BrokenHasReason /\ NothingLost

LEMMA NoValuesType ==
    /\ NoValues \in [Key -> 0..MaxPuts]
    /\ \A k \in Key : NoValues[k] = 0
  BY MaxPutsIsNat DEF NoValues

LEMMA CombineValue ==
    ASSUME NEW f, NEW t, NEW u, NEW k \in Key
    PROVE  Combine(f, t, u)[k] = IF FileOf[k] = f THEN t[k] ELSE u[k]
  BY DEF Combine

LEMMA InitIInv == Init => IInv
  BY KeysAreInFiles, MaxPutsIsNat
     DEF Init, IInv, TypeOK, SaversKnow, BrokenHasReason, NothingLost, FreshIsNew,
         PutsBound, NoValues, File, Saving

-----------------------------------------------------------------------------
LEMMA ReadFileStep ==
    ASSUME IInv, NEW p \in Process, NEW f \in File, NEW place \in {"config", "ready"},
           pc[p] \in {"off", "config"}, ReadFile(p, f, place)
    PROVE  IInv'
<1> USE KeysAreInFiles, MaxPutsIsNat DEF ReadFile, fileVars
<1>1. TypeOK'
  BY DEF IInv, TypeOK, Combine, NoValues
<1>2. SaversKnow' /\ BrokenHasReason'
  <2>1. \A q \in Process, g \in File : Saving(q, g)' <=> Saving(q, g)
    BY DEF IInv, TypeOK, Saving
  <2> QED BY <2>1 DEF IInv, SaversKnow, BrokenHasReason
<1>3. NothingLost'
  BY DEF IInv, NothingLost
<1>4. FreshIsNew'
  <2> SUFFICES ASSUME NEW q \in Process, NEW k \in Key, FileOf[k] \in fresh'[q] \ undone
               PROVE  copy'[q][k] >= last[k]
    BY DEF FreshIsNew
  <2>1. CASE q = p /\ FileOf[k] = f
    <3>1. copy'[q][k] = text[f][k] /\ text[f][k] = last[k] /\ last[k] \in Nat
      BY <2>1 DEF IInv, TypeOK, NothingLost, Combine
    <3> QED BY <3>1
  <2>2. CASE ~(q = p /\ FileOf[k] = f)
    <3>1. copy'[q][k] = copy[q][k] /\ FileOf[k] \in fresh[q]
      BY <2>2 DEF IInv, TypeOK, Combine
    <3> QED BY <3>1 DEF IInv, FreshIsNew
  <2> QED BY <2>1, <2>2
<1>5. PutsBound'
  <2> SUFFICES ASSUME NEW q \in Process, NEW k \in Key PROVE copy'[q][k] <= puts
    BY DEF IInv, PutsBound
  <2>1. copy'[q][k] = copy[q][k] \/ (copy'[q][k] = text[f][k] /\ FileOf[k] = f)
    <3>1. q # p => copy'[q] = copy[q]
      BY DEF IInv, TypeOK
    <3>2. copy'[p] = Combine(f, text[f], copy[p])
      BY DEF IInv, TypeOK
    <3>3. Combine(f, text[f], copy[p])[k] = IF FileOf[k] = f THEN text[f][k] ELSE copy[p][k]
      BY CombineValue
    <3> QED BY <3>1, <3>2, <3>3
  <2>2. FileOf[k] = f => text[f][k] <= puts
    BY DEF IInv, TypeOK, PutsBound
  <2> QED BY <2>1, <2>2 DEF IInv, PutsBound
<1> QED BY <1>1, <1>2, <1>3, <1>4, <1>5 DEF IInv

LEMMA StopStep == ASSUME IInv, NEW p \in Process, Stop(p) PROVE IInv'
<1> USE KeysAreInFiles, MaxPutsIsNat DEF Stop, fileVars
<1>1. TypeOK'
  BY DEF IInv, TypeOK, NoValues
<1>2. SaversKnow' /\ BrokenHasReason'
  <2>1. \A q \in Process, g \in File : Saving(q, g)' <=> Saving(q, g)
    BY DEF IInv, TypeOK, Saving
  <2> QED BY <2>1 DEF IInv, SaversKnow, BrokenHasReason
<1>3. NothingLost'
  BY DEF IInv, NothingLost
<1>4. FreshIsNew'
  BY DEF IInv, TypeOK, FreshIsNew
<1>5. PutsBound'
  BY DEF IInv, TypeOK, PutsBound, NoValues, Combine
<1> QED BY <1>1, <1>2, <1>3, <1>4, <1>5 DEF IInv

LEMMA PutFailsStep ==
    ASSUME IInv, NEW p \in Process, NEW k \in Key, PutFails(p, k) PROVE IInv'
<1> USE KeysAreInFiles, MaxPutsIsNat DEF PutFails, fileVars, historyVars
<1>1. TypeOK'
  BY DEF IInv, TypeOK
<1>2. SaversKnow' /\ BrokenHasReason'
  <2>1. \A q \in Process, g \in File : Saving(q, g)' <=> Saving(q, g)
    BY DEF IInv, TypeOK, Saving
  <2> QED BY <2>1 DEF IInv, SaversKnow, BrokenHasReason
<1>3. NothingLost'
  BY DEF IInv, NothingLost
<1>4. FreshIsNew'
  <2> SUFFICES ASSUME NEW q \in Process, NEW j \in Key, FileOf[j] \in fresh[q] \ undone
               PROVE  copy'[q][j] >= last[j]
    BY DEF FreshIsNew
  <2>1. copy'[q][j] = puts + 1 \/ copy'[q][j] = copy[q][j]
    BY DEF IInv, TypeOK
  <2>2. copy[q][j] >= last[j] /\ last[j] <= puts
    BY DEF IInv, FreshIsNew, PutsBound
  <2>3. puts \in Nat /\ last[j] \in Nat /\ copy[q][j] \in Nat
    BY DEF IInv, TypeOK
  <2> QED BY <2>1, <2>2, <2>3
<1>5. PutsBound'
  BY DEF IInv, TypeOK, PutsBound
<1> QED BY <1>1, <1>2, <1>3, <1>4, <1>5 DEF IInv

-----------------------------------------------------------------------------
LEMMA PutStep ==
    ASSUME IInv, NEW p \in Process, NEW k \in Key, Put(p, k) PROVE IInv'
<1> USE KeysAreInFiles, MaxPutsIsNat DEF Put, PutInto
<1> DEFINE f == FileOf[k]
           others == {q \in Process \ {p} : Saving(q, f)}
<1>1. TypeOK'
  <2>1. /\ f \in File /\ puts' \in 0..MaxPuts
        /\ text' = [text EXCEPT ![f] = NoValues] /\ state' = [state EXCEPT ![f] = "empty"]
    BY DEF IInv, TypeOK
  <2>2. /\ text' \in [File -> [Key -> 0..MaxPuts]]
        /\ state' \in [File -> {"missing", "empty", "whole", "garbled"}]
        /\ \A g \in File, j \in Key : text'[g][j] # 0 => state'[g] = "whole" /\ FileOf[j] = g
    BY <2>1 DEF IInv, TypeOK, NoValues
  <2>3. /\ pc' \in [Process -> {"off", "config", "ready", "saving"}]
        /\ copy' \in [Process -> [Key -> 0..MaxPuts]]
        /\ saving' \in [Process -> File]
    BY <2>1 DEF IInv, TypeOK
  <2>4. alone' \in [Process -> BOOLEAN] /\ harmed' \subseteq File
    BY <2>1 DEF IInv, TypeOK
  <2> QED BY <2>1, <2>2, <2>3, <2>4 DEF IInv, TypeOK
<1>2. \A q \in Process, g \in File : Saving(q, g)' <=> IF q = p THEN g = f ELSE Saving(q, g)
  BY DEF IInv, TypeOK, Saving
<1>3. SaversKnow'
  <2> SUFFICES ASSUME NEW q \in Process, NEW g \in File, Saving(q, g)'
               PROVE  IF alone'[q]
                      THEN state'[g] = "empty" /\ \A r \in Process \ {q} : ~Saving(r, g)'
                      ELSE g \in harmed'
    BY DEF SaversKnow
  <2>1. CASE q = p
    <3>1. g = f /\ alone'[q] = (others = {}) /\ (others # {} => f \in harmed')
      BY <1>2, <2>1 DEF IInv, TypeOK
    <3>2. state'[f] = "empty"
      BY DEF IInv, TypeOK
    <3>3. others = {} => \A r \in Process \ {q} : ~Saving(r, g)'
      BY <1>2, <2>1, <3>1
    <3> QED BY <3>1, <3>2, <3>3
  <2>2. CASE q # p /\ g = f
    <3>1. Saving(q, g) /\ q \in others
      BY <1>2, <2>2
    <3>2. ~alone'[q] /\ f \in harmed'
      BY <3>1, <2>2
    <3> QED BY <2>2, <3>2
  <2>3. CASE q # p /\ g # f
    <3>1. Saving(q, g) /\ ~Saving(p, g)'
      BY <1>2, <2>3
    <3>2. q \notin others
      BY <3>1, <2>3 DEF Saving
    <3>3. alone'[q] = alone[q] /\ state'[g] = state[g] /\ (g \in harmed => g \in harmed')
      BY <2>3, <3>2 DEF IInv, TypeOK
    <3> QED BY <1>2, <2>3, <3>1, <3>3 DEF IInv, SaversKnow
  <2> QED BY <2>1, <2>2, <2>3
<1>4. BrokenHasReason'
  <2> SUFFICES ASSUME NEW g \in File, state'[g] \in {"empty", "garbled"}, g \notin harmed'
               PROVE  \E q \in Process : Saving(q, g)'
    BY DEF BrokenHasReason
  <2>1. CASE g = f
    BY <1>2, <2>1
  <2>2. CASE g # f
    <3>1. state'[g] = state[g] /\ g \notin harmed
      BY <2>2 DEF IInv, TypeOK
    <3>2. PICK q \in Process : Saving(q, g)
      BY <3>1 DEF IInv, BrokenHasReason
    <3> QED BY <1>2, <3>2, <2>2 DEF IInv, TypeOK, Saving
  <2> QED BY <2>1, <2>2
<1>5. NothingLost'
  BY DEF IInv, TypeOK, NothingLost
<1>6. FreshIsNew'
  <2> SUFFICES ASSUME NEW q \in Process, NEW j \in Key, FileOf[j] \in fresh[q] \ undone
               PROVE  copy'[q][j] >= last[j]
    BY DEF FreshIsNew
  <2>1. copy'[q][j] = puts + 1 \/ copy'[q][j] = copy[q][j]
    BY DEF IInv, TypeOK
  <2>2. copy[q][j] >= last[j] /\ last[j] <= puts
    BY DEF IInv, FreshIsNew, PutsBound
  <2>3. puts \in Nat /\ last[j] \in Nat /\ copy[q][j] \in Nat
    BY DEF IInv, TypeOK
  <2> QED BY <2>1, <2>2, <2>3
<1>7. PutsBound'
  <2>1. ASSUME NEW j \in Key, NEW q \in Process PROVE copy'[q][j] <= puts'
    <3>1. copy'[q][j] = puts + 1 \/ copy'[q][j] = copy[q][j]
      BY DEF IInv, TypeOK
    <3> QED BY <3>1 DEF IInv, TypeOK, PutsBound
  <2>2. ASSUME NEW j \in Key, NEW g \in File PROVE text'[g][j] <= puts'
    <3>1. text'[g][j] = 0 \/ text'[g][j] = text[g][j]
      BY NoValuesType DEF IInv, TypeOK
    <3> QED BY <3>1 DEF IInv, TypeOK, PutsBound
  <2>3. ASSUME NEW j \in Key PROVE last[j] <= puts'
    BY DEF IInv, TypeOK, PutsBound
  <2> QED BY <2>1, <2>2, <2>3 DEF PutsBound
<1> QED BY <1>1, <1>3, <1>4, <1>5, <1>6, <1>7 DEF IInv

LEMMA CloseStep == ASSUME IInv, NEW p \in Process, Close(p) PROVE IInv'
<1> USE KeysAreInFiles, MaxPutsIsNat DEF Close, CloseWith
<1> DEFINE f == saving[p]
           written == Combine(f, copy[p], NoValues)
<1>0. f \in File /\ Saving(p, f) /\ written \in [Key -> 0..MaxPuts]
  BY DEF IInv, TypeOK, Saving, Combine, NoValues
<1>a. \/ state' = [state EXCEPT ![f] = "whole"] /\ text' = [text EXCEPT ![f] = written]
      \/ state' = [state EXCEPT ![f] = "garbled"] /\ text' = [text EXCEPT ![f] = NoValues]
  OBVIOUS
<1>b. \A k \in Key : written[k] = IF FileOf[k] = f THEN copy[p][k] ELSE 0
  BY DEF Combine, NoValues
<1> HIDE DEF written
<1>1. TypeOK'
  <2>1. last' \in [Key -> 0..MaxPuts]
    BY DEF IInv, TypeOK
  <2>2. /\ text' \in [File -> [Key -> 0..MaxPuts]]
        /\ state' \in [File -> {"missing", "empty", "whole", "garbled"}]
    <3> HIDE DEF Close, CloseWith
    <3>1. state' \in [File -> {"missing", "empty", "whole", "garbled"}]
      <4>1. state' = [state EXCEPT ![f] = "whole"] \/ state' = [state EXCEPT ![f] = "garbled"]
        BY <1>a
      <4> QED BY <4>1 DEF IInv, TypeOK
    <3>2. text' = [text EXCEPT ![f] = written] \/ text' = [text EXCEPT ![f] = NoValues]
      BY <1>a
    <3>3. text' \in [File -> [Key -> 0..MaxPuts]]
      BY <1>0, <3>2, NoValuesType DEF IInv, TypeOK
    <3> QED BY <3>1, <3>3
  <2>3. \A g \in File, k \in Key : text'[g][k] # 0 => state'[g] = "whole" /\ FileOf[k] = g
    <3> HIDE DEF Close, CloseWith
    <3> QED BY <1>0, <1>a, <1>b, NoValuesType DEF IInv, TypeOK
  <2>4. /\ pc' \in [Process -> {"off", "config", "ready", "saving"}]
        /\ fresh' \in [Process -> SUBSET File]
        /\ harmed' \subseteq File /\ undone' \subseteq File
    BY <1>0 DEF IInv, TypeOK
  <2> QED BY <2>1, <2>2, <2>3, <2>4 DEF IInv, TypeOK
<1>2. \A q \in Process, g \in File : Saving(q, g)' <=> q # p /\ Saving(q, g)
  BY DEF IInv, TypeOK, Saving
<1>3. SaversKnow'
  <2> SUFFICES ASSUME NEW q \in Process, NEW g \in File, Saving(q, g)'
               PROVE  IF alone[q]
                      THEN state'[g] = "empty" /\ \A r \in Process \ {q} : ~Saving(r, g)'
                      ELSE g \in harmed'
    BY DEF SaversKnow
  <2>1. q # p /\ Saving(q, g)
    BY <1>2
  <2>2. CASE g = f
    <3>1. ~alone[p] /\ ~alone[q]
      BY <1>0, <2>1, <2>2 DEF IInv, SaversKnow
    <3> QED BY <2>1, <3>1 DEF IInv, SaversKnow
  <2>3. CASE g # f
    <3>1. state'[g] = state[g] /\ (g \in harmed => g \in harmed')
      BY <2>3 DEF IInv, TypeOK
    <3> QED BY <1>2, <2>1, <3>1 DEF IInv, SaversKnow
  <2> QED BY <2>2, <2>3
<1>4. BrokenHasReason'
  <2> SUFFICES ASSUME NEW g \in File, state'[g] \in {"empty", "garbled"}, g \notin harmed'
               PROVE  \E q \in Process : Saving(q, g)'
    BY DEF BrokenHasReason
  <2>1. CASE g = f
    <3>1. state[f] # "empty"
      BY <1>0, <2>1 DEF IInv, TypeOK
    <3>2. ~alone[p]
      BY <1>0, <3>1 DEF IInv, SaversKnow
    <3> QED BY <1>0, <2>1, <3>2 DEF IInv, SaversKnow
  <2>2. CASE g # f
    <3>1. state'[g] = state[g] /\ g \notin harmed
      BY <2>2 DEF IInv, TypeOK
    <3>2. PICK q \in Process : Saving(q, g)
      BY <3>1 DEF IInv, BrokenHasReason
    <3> QED BY <1>0, <1>2, <3>2, <2>2 DEF Saving
  <2> QED BY <2>1, <2>2
<1>5. FreshIsNew'
  <2> SUFFICES ASSUME NEW q \in Process, NEW j \in Key, FileOf[j] \in fresh'[q] \ undone'
               PROVE  copy[q][j] >= last'[j]
    BY DEF FreshIsNew
  <2>0. copy[q][j] \in Nat /\ copy[p][j] \in Nat /\ last[j] \in Nat
    BY DEF IInv, TypeOK
  <2>1. copy[q][j] >= last[j]
    BY DEF IInv, TypeOK, FreshIsNew
  <2>2. last'[j] = last[j] \/ (last'[j] = copy[p][j] /\ FileOf[j] = f)
    BY DEF IInv, TypeOK
  <2>3. FileOf[j] = f => q = p
    BY DEF IInv, TypeOK
  <2> QED BY <2>0, <2>1, <2>2, <2>3
<1>6. NothingLost'
  <2> SUFFICES ASSUME NEW g \in File, g \notin undone', state'[g] \in {"whole", "missing"},
                      NEW k \in Key, FileOf[k] = g
               PROVE  text'[g][k] = last'[k]
    BY DEF NothingLost
  <2>1. CASE g = f
    <3>1. text'[g] = written /\ written[k] = copy[p][k]
      BY <1>0, <1>a, <1>b, <2>1 DEF IInv, TypeOK
    <3>2. copy[p][k] >= last[k] /\ copy[p][k] \in Nat /\ last[k] \in Nat
      BY <2>1 DEF IInv, TypeOK, FreshIsNew
    <3>3. last'[k] = IF copy[p][k] > last[k] THEN copy[p][k] ELSE last[k]
      BY <2>1
    <3> QED BY <3>1, <3>2, <3>3
  <2>2. CASE g # f
    <3>1. text'[g] = text[g] /\ state'[g] = state[g] /\ last'[k] = last[k] /\ g \notin undone
      BY <2>2 DEF IInv, TypeOK
    <3> QED BY <3>1 DEF IInv, NothingLost
  <2> QED BY <2>1, <2>2
<1>7. PutsBound'
  <2>1. ASSUME NEW j \in Key, NEW g \in File PROVE text'[g][j] <= puts
    <3>1. text'[g][j] \in {0, written[j], text[g][j]}
      <4> HIDE DEF Close, CloseWith
      <4> QED BY <1>0, <1>a, NoValuesType DEF IInv, TypeOK
    <3>2. written[j] \in {0, copy[p][j]}
      BY <1>b
    <3> QED BY <3>1, <3>2 DEF IInv, TypeOK, PutsBound
  <2>2. ASSUME NEW j \in Key PROVE last'[j] <= puts
    BY DEF IInv, PutsBound
  <2> QED BY <2>1, <2>2 DEF IInv, PutsBound
<1> QED BY <1>1, <1>3, <1>4, <1>5, <1>6, <1>7 DEF IInv

LEMMA CutShortStep ==
    ASSUME IInv, NEW p \in Process, NEW survives \in BOOLEAN, CutShort(p, survives)
    PROVE  IInv'
<1> USE KeysAreInFiles, MaxPutsIsNat DEF CutShort, fileVars
<1> DEFINE f == saving[p]
<1>0. f \in File /\ Saving(p, f)
  BY DEF IInv, TypeOK, Saving
<1>a. \/ UNCHANGED fileVars
      \/ state' = [state EXCEPT ![f] = "garbled"] /\ text' = [text EXCEPT ![f] = NoValues]
  OBVIOUS
<1>b. \/ pc' = [pc EXCEPT ![p] = "ready"] /\ copy' = copy /\ fresh' = fresh
      \/ /\ pc' = [pc EXCEPT ![p] = "off"]
         /\ copy' = [copy EXCEPT ![p] = NoValues]
         /\ fresh' = [fresh EXCEPT ![p] = {}]
  BY Zenon
<1>1. TypeOK'
  <2>1. /\ text' \in [File -> [Key -> 0..MaxPuts]]
        /\ state' \in [File -> {"missing", "empty", "whole", "garbled"}]
        /\ \A g \in File, k \in Key : text'[g][k] # 0 => state'[g] = "whole" /\ FileOf[k] = g
    <3> HIDE DEF CutShort
    <3>1. state' \in [File -> {"missing", "empty", "whole", "garbled"}]
      <4>1. state' = state \/ state' = [state EXCEPT ![f] = "garbled"]
        BY <1>a DEF fileVars
      <4> QED BY <4>1 DEF IInv, TypeOK
    <3>2. text' = text \/ text' = [text EXCEPT ![f] = NoValues]
      BY <1>a DEF fileVars
    <3>3. text' \in [File -> [Key -> 0..MaxPuts]]
      BY <3>2, NoValuesType DEF IInv, TypeOK
    <3>4. \A g \in File, k \in Key : text'[g][k] # 0 => state'[g] = "whole" /\ FileOf[k] = g
      <4> SUFFICES ASSUME NEW g \in File, NEW k \in Key, text'[g][k] # 0
                   PROVE  state'[g] = "whole" /\ FileOf[k] = g
        OBVIOUS
      <4>1. text'[g] = text[g] /\ state'[g] = state[g]
        BY <1>0, <1>a, NoValuesType DEF IInv, TypeOK, fileVars
      <4> QED BY <4>1 DEF IInv, TypeOK
    <3> QED BY <3>1, <3>3, <3>4
  <2>2. /\ pc' \in [Process -> {"off", "config", "ready", "saving"}]
        /\ copy' \in [Process -> [Key -> 0..MaxPuts]]
        /\ fresh' \in [Process -> SUBSET File]
    <3> HIDE DEF CutShort
    <3>1. copy' = copy \/ copy' = [copy EXCEPT ![p] = NoValues]
      BY <1>b
    <3>2. copy' \in [Process -> [Key -> 0..MaxPuts]]
      BY <3>1, NoValuesType DEF IInv, TypeOK
    <3>3. /\ pc' \in [Process -> {"off", "config", "ready", "saving"}]
          /\ fresh' \in [Process -> SUBSET File]
      BY <1>b DEF IInv, TypeOK
    <3> QED BY <3>2, <3>3
  <2> QED BY <1>0, <2>1, <2>2 DEF IInv, TypeOK
<1>2. \A q \in Process, g \in File : Saving(q, g)' <=> q # p /\ Saving(q, g)
  BY DEF IInv, TypeOK, Saving
<1>3. SaversKnow'
  <2> SUFFICES ASSUME NEW q \in Process, NEW g \in File, Saving(q, g)'
               PROVE  IF alone[q]
                      THEN state'[g] = "empty" /\ \A r \in Process \ {q} : ~Saving(r, g)'
                      ELSE g \in harmed'
    BY DEF SaversKnow
  <2>1. q # p /\ Saving(q, g)
    BY <1>2
  <2>2. CASE g = f
    BY <1>0, <2>1, <2>2 DEF IInv, SaversKnow
  <2>3. CASE g # f
    <3>1. state'[g] = state[g] /\ (g \in harmed => g \in harmed')
      BY <2>3 DEF IInv, TypeOK
    <3> QED BY <1>2, <2>1, <3>1 DEF IInv, SaversKnow
  <2> QED BY <2>2, <2>3
<1>4. BrokenHasReason'
  <2> SUFFICES ASSUME NEW g \in File, state'[g] \in {"empty", "garbled"}, g \notin harmed'
               PROVE  \E q \in Process : Saving(q, g)'
    BY DEF BrokenHasReason
  <2>1. g # f /\ state'[g] = state[g] /\ g \notin harmed
    BY DEF IInv, TypeOK
  <2>2. PICK q \in Process : Saving(q, g)
    BY <2>1 DEF IInv, BrokenHasReason
  <2> QED BY <1>0, <1>2, <2>1, <2>2 DEF Saving
<1>5. NothingLost'
  BY DEF IInv, TypeOK, NothingLost
<1>c. UNCHANGED <<puts, undone, last>>
  OBVIOUS
<1>6. FreshIsNew'
  <2> HIDE DEF CutShort
  <2>1. ASSUME NEW q \in Process, q # p PROVE copy'[q] = copy[q] /\ fresh'[q] = fresh[q]
    BY <1>b, <2>1 DEF IInv, TypeOK
  <2>2. (copy'[p] = copy[p] /\ fresh'[p] = fresh[p]) \/ fresh'[p] = {}
    BY <1>b DEF IInv, TypeOK
  <2> QED BY <1>c, <2>1, <2>2 DEF IInv, FreshIsNew
<1>7. PutsBound'
  <2> HIDE DEF CutShort
  <2>1. ASSUME NEW j \in Key, NEW q \in Process PROVE copy'[q][j] <= puts
    <3>1. copy'[q][j] = 0 \/ copy'[q][j] = copy[q][j]
      BY <1>b, NoValuesType DEF IInv, TypeOK
    <3> QED BY <3>1 DEF IInv, TypeOK, PutsBound
  <2>2. ASSUME NEW j \in Key, NEW g \in File PROVE text'[g][j] <= puts
    <3>1. text'[g][j] = 0 \/ text'[g][j] = text[g][j]
      BY <1>0, <1>a, NoValuesType DEF IInv, TypeOK
    <3> QED BY <3>1 DEF IInv, TypeOK, PutsBound
  <2> QED BY <1>c, <2>1, <2>2 DEF IInv, PutsBound
<1> QED BY <1>1, <1>3, <1>4, <1>5, <1>6, <1>7 DEF IInv

-----------------------------------------------------------------------------
LEMMA NextIInv == IInv /\ [Next]_vars => IInv'
<1> SUFFICES ASSUME IInv, [Next]_vars PROVE IInv'
  OBVIOUS
<1>1. CASE UNCHANGED vars
  BY <1>1 DEF IInv, TypeOK, SaversKnow, BrokenHasReason, NothingLost, FreshIsNew, PutsBound,
              Saving, vars, fileVars, historyVars
<1>2. ASSUME NEW p \in Process, ReadConfig(p) PROVE IInv'
  BY <1>2, ReadFileStep DEF ReadConfig, File
<1>3. ASSUME NEW p \in Process, ReadAuxFiles(p) PROVE IInv'
  BY <1>3, ReadFileStep DEF ReadAuxFiles, File
<1> QED
  BY <1>1, <1>2, <1>3, StopStep, PutStep, PutFailsStep, CloseStep, CutShortStep DEF Next

LEMMA SpecIInv == Spec => []IInv
  BY InitIInv, NextIInv, PTL DEF Spec

\* The variables keep their types, each file has its own keys only, and only a
\* file that is whole has values, whatever a save of _write_config or
\* _write_aux_files is cut short by.
THEOREM TypeCorrect == Spec => []TypeOK
<1>1. IInv => TypeOK
  BY DEF IInv
<1> QED BY <1>1, SpecIInv, PTL

\* _read fails on a file only while that is being written, or after a write of it
\* was cut short or met another one, and none went undisturbed since.
THEOREM BrokenWithReason == Spec => []BrokenHasReason
<1>1. IInv => BrokenHasReason
  BY DEF IInv
<1> QED BY <1>1, SpecIInv, PTL

\* What _read finds in a file is what was written to it last, unless a process
\* has written a copy that was older than another one's write.
THEOREM LosesNothing == Spec => []NothingLost
<1>1. IInv => NothingLost
  BY DEF IInv
<1> QED BY <1>1, SpecIInv, PTL
=============================================================================
