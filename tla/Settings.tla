------------------------------ MODULE Settings ------------------------------
(***************************************************************************)
(* settings.py: the settings that host applications on one machine keep in *)
(* two JSON files, config.json and aux_files.json.                         *)
(*                                                                         *)
(* Each process reads both files when it first needs them, keeps a copy,   *)
(* and writes a whole file from its copy at every change: open truncates   *)
(* the file, and the text gets there when it is closed.  Nothing keeps two *)
(* processes apart, and any of them may be gone at any time.               *)
(*                                                                         *)
(* A value is the number of the put that set it, 0 if there is none.  Of a *)
(* text that is written over another one something may be left of the old. *)
(***************************************************************************)
EXTENDS Naturals

CONSTANTS
    Process,  \* the host applications
    Key,      \* the projects, for get_aux_files, and what is acknowledged
    FileOf,   \* the file each key is in, "config" or "aux"
    MaxPuts   \* bound: how often something is put

ASSUME MaxPutsIsNat == MaxPuts \in Nat

File == {"config", "aux"}

ASSUME KeysAreInFiles == FileOf \in [Key -> File]

VARIABLES
    text,     \* the values that each file has, if it is whole
    state,    \* what each file is: missing, empty, whole or garbled
    pc,       \* where each process is
    copy,     \* _config and _aux_files of each process
    saving,   \* the file that each process writes
    puts,     \* how often something was put
    alone,    \* history: no other save of the file ran during that of the process
    fresh,    \* history: the files no other process has saved since it read them
    harmed,   \* history: files of which a save was cut short or disturbed, and
              \* none has gone undisturbed since
    undone,   \* history: files that a process saved from a copy that was not fresh
    last      \* history: the value of each key that was saved last

fileVars == <<text, state>>
historyVars == <<alone, fresh, harmed, undone, last>>
vars == <<fileVars, pc, copy, saving, puts, historyVars>>

NoValues == [k \in Key |-> 0]

Init ==
    /\ text = [f \in File |-> NoValues]
    /\ state = [f \in File |-> "missing"]
    /\ pc = [p \in Process |-> "off"]
    /\ copy = [p \in Process |-> NoValues]
    /\ saving = [p \in Process |-> "aux"]
    /\ puts = 0
    /\ alone = [p \in Process |-> FALSE]
    /\ fresh = [p \in Process |-> {}]
    /\ harmed = {} /\ undone = {}
    /\ last = NoValues

-----------------------------------------------------------------------------
(* Reading, in Settings.get().                                             *)

\* The values of file f in t, and those of the other file in u.
Combine(f, t, u) == [k \in Key |-> IF FileOf[k] = f THEN t[k] ELSE u[k]]

\* Process p reads file f, which must be there in whole or not at all, and goes
\* on at `place`.
ReadFile(p, f, place) ==
    /\ state[f] \in {"whole", "missing"}
    /\ copy' = [copy EXCEPT ![p] = Combine(f, text[f], @)]
    /\ fresh' = [fresh EXCEPT ![p] = @ \cup {f}]
    /\ pc' = [pc EXCEPT ![p] = place]
    /\ UNCHANGED <<fileVars, saving, puts, alone, harmed, undone, last>>

ReadConfig(p) == pc[p] = "off" /\ ReadFile(p, "config", "config")

ReadAuxFiles(p) == pc[p] = "config" /\ ReadFile(p, "aux", "ready")

\* The settings of p are gone: json.load cannot make sense of the second file,
\* so that they are read again when they are next needed, or the process ends.
Stop(p) ==
    /\ pc[p] \in {"config", "ready"}
    /\ pc' = [pc EXCEPT ![p] = "off"]
    /\ copy' = [copy EXCEPT ![p] = NoValues]
    /\ fresh' = [fresh EXCEPT ![p] = {}]
    /\ UNCHANGED <<fileVars, saving, puts, alone, harmed, undone, last>>

-----------------------------------------------------------------------------
(* Writing.                                                                *)

Saving(p, f) == pc[p] = "saving" /\ saving[p] = f

\* put_aux_files or put_pvm_ack: the copy is changed and the file opened, which
\* leaves it in state `opened`.
PutInto(p, k, opened) ==
    LET f == FileOf[k]
        others == {q \in Process \ {p} : Saving(q, f)}
    IN  /\ pc[p] = "ready" /\ puts < MaxPuts
        /\ puts' = puts + 1
        /\ copy' = [copy EXCEPT ![p][k] = puts + 1]
        /\ saving' = [saving EXCEPT ![p] = f]
        /\ pc' = [pc EXCEPT ![p] = "saving"]
        /\ state' = [state EXCEPT ![f] = opened]
        /\ text' = [text EXCEPT ![f] = IF opened = "empty" THEN NoValues ELSE @]
        /\ alone' = [q \in Process |-> IF q = p THEN others = {} ELSE alone[q] /\ q \notin others]
        /\ harmed' = IF others = {} THEN harmed ELSE harmed \cup {f}
        /\ UNCHANGED <<fresh, undone, last>>

\* Faulty: the file is not truncated.
PutOver(p, k) ==
    PutInto(p, k, IF state[FileOf[k]] = "missing" THEN "empty" ELSE state[FileOf[k]])

Put(p, k) == PutInto(p, k, "empty")

\* The file cannot be opened: only the copy is changed.
PutFails(p, k) ==
    /\ pc[p] = "ready" /\ puts < MaxPuts
    /\ puts' = puts + 1
    /\ copy' = [copy EXCEPT ![p][k] = puts + 1]
    /\ UNCHANGED <<fileVars, pc, saving, historyVars>>

\* The file is closed, and what is `written` gets there, or what was left of it
\* when another process wrote since it was truncated.
CloseWith(p, written) ==
    LET f == saving[p]
    IN  /\ pc[p] = "saving"
        /\ \/ state' = [state EXCEPT ![f] = "whole"] /\ text' = [text EXCEPT ![f] = written]
           \/ /\ state[f] # "empty" /\ text[f] # written
              /\ state' = [state EXCEPT ![f] = "garbled"]
              /\ text' = [text EXCEPT ![f] = NoValues]
        /\ pc' = [pc EXCEPT ![p] = "ready"]
        /\ harmed' = IF alone[p] THEN harmed \ {f} ELSE harmed
        /\ undone' = IF f \in fresh[p] THEN undone ELSE undone \cup {f}
        /\ fresh' = [q \in Process |-> IF q = p THEN fresh[q] ELSE fresh[q] \ {f}]
        /\ last' = [k \in Key |-> IF FileOf[k] = f /\ copy[p][k] > last[k]
                                  THEN copy[p][k] ELSE last[k]]
        /\ UNCHANGED <<copy, saving, puts, alone>>

\* Faulty: all settings are written to either file.
CloseBoth(p) == CloseWith(p, copy[p])

\* Faulty: the values that were there before are not written again.
CloseNewest(p) ==
    CloseWith(p, [k \in Key |-> IF FileOf[k] = saving[p] /\ copy[p][k] = puts THEN puts ELSE 0])

Close(p) == CloseWith(p, Combine(saving[p], copy[p], NoValues))

\* The process is killed while it writes, or the disk is full, which the process
\* survives: the file is left as it is or with a part of the text.
CutShort(p, survives) ==
    LET f == saving[p]
    IN  /\ pc[p] = "saving"
        /\ \/ UNCHANGED fileVars
           \/ /\ state' = [state EXCEPT ![f] = "garbled"]
              /\ text' = [text EXCEPT ![f] = NoValues]
        /\ harmed' = harmed \cup {f}
        /\ IF survives
           THEN pc' = [pc EXCEPT ![p] = "ready"] /\ UNCHANGED <<copy, fresh>>
           ELSE /\ pc' = [pc EXCEPT ![p] = "off"]
                /\ copy' = [copy EXCEPT ![p] = NoValues]
                /\ fresh' = [fresh EXCEPT ![p] = {}]
        /\ UNCHANGED <<saving, puts, alone, undone, last>>

-----------------------------------------------------------------------------
Next ==
    \E p \in Process :
        \/ ReadConfig(p) \/ ReadAuxFiles(p) \/ Stop(p)
        \/ \E k \in Key : Put(p, k) \/ PutFails(p, k)
        \/ Close(p)
        \/ \E survives \in BOOLEAN : CutShort(p, survives)

Spec == Init /\ [][Next]_vars

-----------------------------------------------------------------------------
(* Properties.                                                             *)

\* The type invariant of the settings; each file has its own keys only, and only
\* a file that is whole has values.
TypeOK ==
    /\ text \in [File -> [Key -> 0..MaxPuts]]
    /\ state \in [File -> {"missing", "empty", "whole", "garbled"}]
    /\ pc \in [Process -> {"off", "config", "ready", "saving"}]
    /\ copy \in [Process -> [Key -> 0..MaxPuts]]
    /\ saving \in [Process -> File]
    /\ puts \in 0..MaxPuts
    /\ alone \in [Process -> BOOLEAN]
    /\ fresh \in [Process -> SUBSET File]
    /\ harmed \subseteq File /\ undone \subseteq File
    /\ last \in [Key -> 0..MaxPuts]
    /\ \A f \in File, k \in Key : text[f][k] # 0 => state[f] = "whole" /\ FileOf[k] = f

\* A process fails to read a file only while that is being saved, or after a save
\* of it was cut short or two of them met: one save that goes undisturbed mends
\* it.  A save of the other file never does any harm.
BrokenHasReason ==
    \A f \in File :
        state[f] \in {"empty", "garbled"} => f \in harmed \/ \E p \in Process : Saving(p, f)

\* What can be read of a file is what was saved last, whatever harm was done and
\* mended before, unless a process saved a copy that was older than another one's
\* save.
NothingLost ==
    \A f \in File : f \notin undone /\ state[f] \in {"whole", "missing"} =>
        \A k \in Key : FileOf[k] = f => text[f][k] = last[k]
=============================================================================
