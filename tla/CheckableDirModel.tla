-------------------------- MODULE CheckableDirModel --------------------------
(***************************************************************************)
(* file_select_dialog.py: the dialog in which the user checks the files    *)
(* and directories to be uploaded with a job, and what comes of it.        *)
(*                                                                         *)
(* CheckableDirModel keeps marks for entries of the file system; an entry  *)
(* without one takes after its directory.  Opening the dialog reads the    *)
(* checked entries from the settings, accepting it saves them, and the     *)
(* upload walks the directories among them.                                *)
(*                                                                         *)
(* The tree stands still, but a directory may be `blind`: it was emptied,  *)
(* cannot be read or has a name that glob takes for a pattern, so that     *)
(* listing it yields nothing although the dialog shows what was in it.     *)
(***************************************************************************)
EXTENDS Naturals, FiniteSets

CONSTANTS
    Entry,    \* the files and directories
    Root,     \* the root directory
    Dir,      \* the directories
    Parent,   \* os.path.dirname of each entry; that of the root is the root
    MayBlind  \* the directories that may be blind at times

ASSUME RootIsItsOwnParent == Root \in Dir /\ Parent[Root] = Root
ASSUME ParentsAreDirs == Dir \subseteq Entry /\ Parent \in [Entry -> Dir]
ASSUME BlindAreDirs == MayBlind \subseteq Dir

\* From every entry os.path.dirname leads to the root.
ASSUME NoCycles ==
    \A S \in SUBSET (Entry \ {Root}) : S # {} => \E e \in S : Parent[e] \notin S

VARIABLES
    files,  \* the marks, "none" for an entry that is not in the dictionary
    open,   \* the dialog is open
    saved,  \* what the settings have, get_aux_files
    blind   \* the directories that cannot be listed now

vars == <<files, open, saved, blind>>

Marks == [Entry -> {"none", "Unchecked", "Partial", "Checked"}]

\* Directory d is above entry e.
Ancestors[e \in Entry] == IF e = Root THEN {} ELSE {Parent[e]} \cup Ancestors[Parent[e]]
Ancestry == UNION {Ancestors[e] \X {e} : e \in Entry}
Above(d, e) == <<d, e>> \in Ancestry

ListDirectory(d) == IF d \in blind THEN {} ELSE {e \in Entry \ {Root} : Parent[e] = d}

\* files.get(e, Unchecked).
Get(m, e) == IF m[e] = "none" THEN "Unchecked" ELSE m[e]

\* _getCheckStatus: an entry's own mark counts, or else its directory's.
GetCheckStatus(m) ==
    LET status[e \in Entry] ==
            CASE m[e] = "Checked" -> "Checked"
              [] m[e] = "Partial" -> "Unchecked"
              [] OTHER -> IF e = Root THEN "Unchecked" ELSE status[Parent[e]]
    IN  status

IsChecked(m, e) == GetCheckStatus(m)[e] = "Checked"

\* data: what the dialog shows of e.
Shown(m, e) == IF m[e] = "Partial" THEN "Partial" ELSE GetCheckStatus(m)[e]

GetSelectedFiles(m) == {e \in Entry : m[e] = "Checked"}

\* The entries in s are checked and the directories above are marked `over`.
MarksOf(s, over) ==
    [e \in Entry |-> IF e \in s THEN "Checked"
                     ELSE IF \E f \in s : Above(e, f) THEN over ELSE "none"]

\* Faulty: no such mark.
InitMisspelt(s) == MarksOf(s, "PartlyChecked")

\* Faulty: the directories above are forgotten.
InitFilesOnly(s) == MarksOf(s, "none")

InitFiles(s) == MarksOf(s, "Partial")

Init ==
    /\ files = InitFiles({})
    /\ open = FALSE
    /\ saved = {}
    /\ blind = {}

-----------------------------------------------------------------------------
(* setData: the user clicks the box of an entry.                           *)

SetStatusSideways(m, e, mark) ==
    [x \in Entry |-> IF x \in ListDirectory(Parent[e]) THEN mark ELSE m[x]]

\* Faulty: only files are cleared.
ClearFiles(m, e) ==
    [x \in Entry |-> IF x \in ListDirectory(e) \ Dir THEN "none" ELSE m[x]]

\* The marks in the directory are deleted; the call that is then made for each
\* entry returns at once, as the entry is not in the dictionary any more.
ClearDown(m, e) ==
    IF m[e] = "none" \/ e \notin Dir THEN m
    ELSE [x \in Entry |-> IF x \in ListDirectory(e) THEN "none" ELSE m[x]]

\* Faulty: the own mark is set before those around it.
ToggleFirst(m, e) ==
    IF IsChecked(m, e) THEN SetStatusSideways([m EXCEPT ![e] = "Unchecked"], e, "Checked")
                       ELSE [m EXCEPT ![e] = "Checked"]

\* Faulty: the other entries of a checked directory are forgotten.
ToggleAlone(m, e) ==
    [m EXCEPT ![e] = IF IsChecked(m, e) THEN "Unchecked" ELSE "Checked"]

\* An entry that is checked because its directory is leaves the others checked.
Toggle(m, e) ==
    IF IsChecked(m, e)
    THEN [(IF Get(m, e) = "Unchecked" THEN SetStatusSideways(m, e, "Checked") ELSE m)
              EXCEPT ![e] = "Unchecked"]
    ELSE [m EXCEPT ![e] = "Checked"]

\* One step of _propagateUp: the directory of e is marked for what is in it; if
\* all of that is unchecked, it is marked `empty`.
MarkDirectory(m, e, empty) ==
    LET all(mark) == \A x \in ListDirectory(Parent[e]) : Get(m, x) = mark
    IN  CASE all("Checked") ->
                SetStatusSideways([m EXCEPT ![Parent[e]] = "Checked"], e, "Unchecked")
          [] ~all("Checked") /\ all("Unchecked") -> [m EXCEPT ![Parent[e]] = empty]
          [] OTHER -> [m EXCEPT ![Parent[e]] = "Partial"]

\* Faulty: a directory never goes back to Unchecked.
PropagatePartly(m, e) == MarkDirectory(m, e, "Partial")

PropagateOnce(m, e) == MarkDirectory(m, e, "Unchecked")

\* Faulty: only the entry's own directory is marked.
PropagateOneLevel(m, e) == IF e = Root THEN m ELSE PropagateOnce(m, e)

\* What _propagateUp(e) makes of the marks, from e to the root.
Propagated[e \in Entry] ==
    [m \in Marks |-> IF e = Root THEN m ELSE Propagated[Parent[e]][PropagateOnce(m, e)]]

PropagateUp(m, e) == Propagated[e][m]

AfterClick(m, e) == PropagateUp(Toggle(ClearDown(m, e), e), e)

Click(e) ==
    /\ open
    /\ files' = AfterClick(files, e)
    /\ UNCHANGED <<open, saved, blind>>

-----------------------------------------------------------------------------
(* The dialog comes and goes, and so do the contents of directories.       *)

Open ==
    /\ ~open
    /\ open' = TRUE
    /\ files' = InitFiles(saved)
    /\ UNCHANGED <<saved, blind>>

\* The dialog is left with `kept` in the settings; its marks go with it.
Leave(kept) ==
    /\ open
    /\ open' = FALSE
    /\ saved' = kept
    /\ files' = InitFiles({})
    /\ UNCHANGED blind

\* Faulty: what is shown as partly checked is saved too.
AcceptedPartly == Leave({e \in Entry : Shown(files, e) \in {"Checked", "Partial"}})

Accepted == Leave(GetSelectedFiles(files))

Rejected == Leave(saved)

\* The user sees the directory in the dialog, but not that it changed.
ChangeDirectory(d) ==
    /\ blind' = IF d \in blind THEN blind \ {d} ELSE blind \cup {d}
    /\ UNCHANGED <<files, open, saved>>

Next ==
    \/ Open \/ Accepted \/ Rejected
    \/ \E e \in Entry : Click(e)
    \/ \E d \in MayBlind : ChangeDirectory(d)

Spec == Init /\ [][Next]_vars

-----------------------------------------------------------------------------
(* Properties.                                                             *)

\* The type invariant of the dialog.
TypeOK ==
    /\ files \in Marks /\ open \in BOOLEAN
    /\ saved \subseteq Entry /\ blind \subseteq MayBlind

File == Entry \ Dir

\* The files that are e or below it, and those that a selection stands for.
Under(e) == {f \in File : f = e \/ Above(e, f)}
Selection(m) == UNION {Under(e) : e \in GetSelectedFiles(m)}

\* How often get_extra_assets lists file f, when the directories in `unlisted`
\* cannot be listed: once for every saved entry from which it is found.
Assets(f, unlisted) ==
    {s \in saved : s = f \/ /\ Above(s, f)
                            /\ \A d \in unlisted : Above(d, f) => ~(d = s \/ Above(s, d))}

\* The marks are what the user would expect of his selection: nothing is marked
\* below a checked entry, and what is above one is marked as partly checked.
Tidy(m) ==
    /\ \A d, e \in Entry : m[d] = "Checked" /\ Above(d, e) => m[e] \in {"none", "Unchecked"}
    /\ \A d, e \in Entry : m[e] = "Checked" /\ Above(d, e) => m[d] = "Partial"

\* Neither e nor a directory above it is blind.
Sighted(e) == \A d \in blind : d # e /\ ~Above(d, e)

\* A click checks an entry that is not checked, and unchecks one that is unless it
\* or a directory above it cannot be listed, whatever marks earlier clicks have left.
ClickToggles ==
    open => \A e \in Entry :
        /\ ~IsChecked(files, e) => IsChecked(AfterClick(files, e), e)
        /\ IsChecked(files, e) /\ Sighted(e) => ~IsChecked(AfterClick(files, e), e)

\* If it is the entry's own directory that cannot be listed, all of its no entries
\* count as checked: after the click, which may have been to uncheck, the entry is
\* checked, and with it the whole directory.
BlindCountsAsChecked ==
    open => \A e \in Entry \ {Root} : Parent[e] \in blind =>
        \A x \in {e, Parent[e]} : IsChecked(AfterClick(files, e), x)

\* From tidy marks, if the entry and the directories above it can be listed,
\* checking it selects what is below it and nothing else, and unchecking it takes
\* out just that, if the entry or its directory is what is checked.
ClickIsExact ==
    open /\ Tidy(files) => \A e \in Entry : Sighted(e) =>
        LET then == Selection(AfterClick(files, e))
        IN  /\ ~IsChecked(files, e) => then = Selection(files) \cup Under(e)
            /\ "Checked" \in {files[e], files[Parent[e]]} => then = Selection(files) \ Under(e)

\* If it is a directory further up, the selection shrinks, but nothing outside
\* that directory is lost.  (What is beside the entry's directory is: only the
\* entry's own level is checked in its stead.)
UncheckLosesInside ==
    open /\ Tidy(files) => \A d, e \in Entry :
        Above(d, e) /\ files[d] = "Checked" /\ Sighted(e) =>
            LET then == Selection(AfterClick(files, e))
            IN  /\ then \subseteq Selection(files) \ Under(e)
                /\ Selection(files) \ Under(d) \subseteq then

\* A click does to the selection what it says, and what else it does is stated.
ClickIsRight == ClickToggles /\ BlindCountsAsChecked /\ ClickIsExact /\ UncheckLosesInside

\* A click leaves tidy marks tidy, if the entry and the directories above it can be
\* listed, unless it is on a directory that has marks two or more levels below it,
\* which stay behind.
StaysTidy ==
    open /\ Tidy(files) => \A e \in Entry : Sighted(e) =>
        \/ Tidy(AfterClick(files, e))
        \/ \E x \in Entry : Above(e, x) /\ Parent[x] # e /\ files[x] \in {"Partial", "Checked"}

\* A directory is shown as partly checked only if something below it is checked,
\* whatever was clicked and whichever directories were blind meanwhile.
PartialHasReason ==
    \A d \in Entry : files[d] = "Partial" =>
        \E e \in Entry : Above(d, e) /\ files[e] = "Checked"

\* The marks keep saying what is selected, apart from what clicks leave behind.
MarksMakeSense == StaysTidy /\ PartialHasReason

\* With tidy marks, the dialog that is opened after this one is accepted shows
\* the same.
ReopensTheSame ==
    Tidy(files) =>
        LET new == InitFiles(GetSelectedFiles(files))
        IN  \A e \in Entry : Shown(new, e) = Shown(files, e)

\* With tidy marks, a file shown as checked when the dialog is accepted is listed
\* for the upload, once, unless by then a directory above it that was shown as
\* checked too cannot be listed: then it is left out, and nobody is told.  No other
\* file is listed.
UploadsWhatWasShown ==
    [][Accepted /\ Tidy(files) =>
            \A f \in File, unlisted \in SUBSET MayBlind :
                LET shown(e) == Shown(files, e) = "Checked"
                    found == shown(f) /\ \A d \in unlisted : Above(d, f) => ~shown(d)
                IN  Cardinality(Assets(f, unlisted)') = IF found THEN 1 ELSE 0]_vars

\* What the documentation of _clearDown says: the click on an entry clears the
\* marks of everything below it.
ClearsAllBelow ==
    [][\A e, x \in Entry : Click(e) /\ Above(e, x) => files'[x] = "none"]_vars
=============================================================================
