------------------------------- MODULE Catalog -------------------------------
(* The backup files on disk and what the application remembers of them: the job
   history (appdata.rs History), the list of known backups (KnownBackups) and
   the copies of both in %LOCALAPPDATA%, saved by write and rename.  A file
   holds the image a job wrote, named by the job's number; image 0 was there
   before. *)
EXTENDS Integers, Sequences, FiniteSets, TLC

CONSTANTS Paths,        \* the .phnx paths the user works with
          HistoryCap,   \* HISTORY_CAP
          SaveFailures  \* saves that fail

ASSUME CatalogAssumption == HistoryCap \in Nat \ {0} /\ SaveFailures \in Nat

VARIABLES file,     \* path -> the image there and whether it has its footer
          sound,    \* (ghost) the images whose every byte is as captured
          written,  \* (ghost) the images that were finalized
          history,  \* JobRecords, oldest first
          known,    \* paths of the Restore + Verify list
          saved,    \* history and known as they are in %LOCALAPPDATA%
          failing   \* saves that will still fail

catalogVars == <<file, sound, written, history, known, saved, failing>>

\* f with v at k.
Put(f, k, v) == [x \in DOMAIN f \cup {k} |-> IF x = k THEN v ELSE f[x]]

NoFile == [img |-> -1, whole |-> FALSE]
File(i, whole) == [img |-> i, whole |-> whole]
Exists(p) == file[p] # NoFile
\* PhnxReader::open succeeds: the footer is there.
Opens(p) == file[p].whole
\* A full verification reads every byte.
Intact(p) == file[p].whole /\ file[p].img \in sound

\* `img` is a ghost: the image the job wrote or read.
Record(kind, path, outcome, img) ==
    [kind |-> kind, path |-> path, outcome |-> outcome, img |-> img]

\* At the start these paths hold (copies of) image 0.
CatalogInit(first) ==
    /\ file = [p \in Paths |-> IF p \in first THEN File(0, TRUE) ELSE NoFile]
    /\ sound = {0} /\ written = {0}
    /\ history = <<>> /\ known = first
    /\ saved = [history |-> <<>>, known |-> first]
    /\ failing \in 0 .. SaveFailures

--------------------------------------------------------------------------------
\* History::append: push, then drain what exceeds the cap from the front.
Trim(log) == SubSeq(log, IF Len(log) > HistoryCap THEN Len(log) - HistoryCap + 1 ELSE 1,
                    Len(log))
\* save_atomic: the old copy or the new one, and an error is ignored by every caller.
SaveAll(new) == \/ saved' = new /\ UNCHANGED failing
                \/ /\ new # saved /\ failing > 0
                   /\ failing' = failing - 1 /\ UNCHANGED saved
Save(part, value) == SaveAll([saved EXCEPT ![part] = value])
SaveBoth == SaveAll([history |-> history', known |-> known'])
AppendRecords(recs) == history' = Trim(history \o recs)

\* reconcile_known_backups: prune the missing, add what the history names.
PathsOf(log) == {log[k].path : k \in DOMAIN log} \cap Paths
Reconciled(list, log) == {p \in list : Exists(p)} \cup PathsOf(log)

\* show_history_delete_dialog, confirmed: forget one entry, save.
RemoveRecord(k) ==
    /\ history' = [j \in 1 .. Len(history) - 1 |-> history[IF j < k THEN j ELSE j + 1]]
    /\ Save("history", history')
    /\ UNCHANGED <<file, sound, written, known>>

\* Opening the Restore page again, or F5 on it: reset_restore_page.
ReconcileKnown ==
    /\ known' = Reconciled(known, history)
    /\ known' # known
    /\ Save("known", known')
    /\ UNCHANGED <<file, sound, written, history>>

\* remember_backup_in_use, remember_known_backup: saved only if it is new.
Remember(p) == known' = known \cup {p} /\ Save("known", known')

\* App::new loads both and reconciles.
LoadCatalog ==
    /\ history' = saved.history
    /\ known' = Reconciled(saved.known, saved.history)
    /\ saved' = [saved EXCEPT !.known = known']
    /\ UNCHANGED <<file, sound, written, failing>>
=============================================================================
