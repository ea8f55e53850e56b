---------------------------- MODULE BundlePublish ----------------------------
(***************************************************************************)
(* publish_envelopes of hokieday/cache.py: the weather scripts publish a   *)
(* bundle of envelopes by staging every file first and then, file by file, *)
(* moving the published one aside and the staged one into its place.  A    *)
(* stage or swap that fails undoes the swaps already made.                 *)
(*                                                                         *)
(* Every file-system call is a step: it may fail (OSError), and the        *)
(* process may be killed between any two of them.  The contents of a file  *)
(* are the number of the run that wrote it.  The caller's entries have     *)
(* distinct keys (scripts/fetch_weather.py), and the order in which they   *)
(* are taken is left open.                                                 *)
(***************************************************************************)
EXTENDS Integers, FiniteSets

CONSTANTS Files,    \* the final paths of the bundle
          Absent,   \* no such file; also a backups[] value of None
          Unset,    \* final is not (yet) a key of backups
          Scrap,    \* an empty or half-written temp file
          MaxRuns   \* bound: how often the script is run

ASSUME BundleAssumption ==
    /\ MaxRuns \in Nat \ {0}
    /\ Absent \notin Nat /\ Unset \notin Nat /\ Scrap \notin Nat
    /\ Absent # Unset /\ Absent # Scrap /\ Unset # Scrap /\ "moved" \notin {Absent, Unset}

VARIABLES final,      \* final[f]: the published file
          tmp,        \* tmp[f]: this run's <name>.stage.*.tmp
          bak,        \* bak[f]: this run's <name>.bak.*.tmp
          leftover,   \* leftover[f]: runs whose copy a killed run left in a temp file
          staged,     \* the files appended to the list `staged`
          backups,    \* backups[f]: "moved", Absent (None) or Unset
          todo, cur,  \* the files a loop has not reached, and the one it is at
          step, run,
          base,       \* history: the bundle as it was before this run, or, once
                      \* every file has been swapped, this run's
          faulty      \* history: an undo step failed, or an interrupt hit
                      \* between a rename and the note that it was made

bundleVars == <<final, tmp, bak, leftover, staged, backups, todo, cur, step, run, base, faulty>>

BundleInit ==
    /\ run = 1
    /\ final \in [Files -> {Absent, 1}]
    /\ base = final
    /\ tmp = [f \in Files |-> Absent]
    /\ bak = [f \in Files |-> Absent]
    /\ leftover = [f \in Files |-> {}]
    /\ staged = {} /\ todo = {} /\ cur = Absent
    /\ backups = [f \in Files |-> Unset]
    /\ step = "idle" /\ faulty = FALSE

Put(file, f, c) == [file EXCEPT ![f] = c]
-----------------------------------------------------------------------------
Begin ==
    /\ step = "idle" /\ run < MaxRuns
    /\ run' = run + 1
    /\ base' = final
    /\ staged' = {} /\ todo' = Files /\ cur' = Absent
    /\ backups' = [f \in Files |-> Unset]
    /\ faulty' = FALSE
    /\ step' = "stage"
    /\ UNCHANGED <<final, tmp, bak, leftover>>

\* mkstemp, write, staged.append.
Stage(f) ==
    /\ step = "stage" /\ f \in todo
    /\ tmp' = Put(tmp, f, run)
    /\ staged' = staged \cup {f}
    /\ todo' = todo \ {f}
    /\ UNCHANGED <<final, bak, leftover, backups, cur, step, run, base, faulty>>

\* The payload cannot be encoded, or mkstemp or the write fails; a temp file
\* that was already made is not in `staged` yet and stays behind.
StageFail(f) ==
    /\ step = "stage" /\ f \in todo
    /\ tmp' \in {tmp, Put(tmp, f, Scrap)}
    /\ todo' = staged
    /\ step' = "unstage"
    /\ UNCHANGED <<final, bak, leftover, staged, backups, cur, run, base, faulty>>

AllStaged ==
    /\ step = "stage" /\ todo = {}
    /\ todo' = Files
    /\ step' = "swap"
    /\ UNCHANGED <<final, tmp, bak, leftover, staged, backups, cur, run, base, faulty>>

\* `if final.exists():` -- mkstemp for its backup, or backups[final] = None.
StartSwap(f) ==
    /\ step = "swap" /\ f \in todo
    /\ cur' = f
    /\ \/ /\ final[f] # Absent
          /\ bak' = Put(bak, f, Scrap)
          /\ step' = "moveAside" /\ UNCHANGED backups
       \/ /\ final[f] = Absent
          /\ backups' = Put(backups, f, Absent)
          /\ step' = "install" /\ UNCHANGED bak
    /\ UNCHANGED <<final, tmp, leftover, staged, todo, run, base, faulty>>

\* os.replace(final, backup_name)
MoveAside ==
    /\ step = "moveAside"
    /\ bak' = Put(bak, cur, final[cur])
    /\ final' = Put(final, cur, Absent)
    /\ step' = "note"
    /\ UNCHANGED <<tmp, leftover, staged, backups, todo, cur, run, base, faulty>>

\* backups[final] = Path(backup_name)
Note ==
    /\ step = "note"
    /\ backups' = Put(backups, cur, "moved")
    /\ step' = "install"
    /\ UNCHANGED <<final, tmp, bak, leftover, staged, todo, cur, run, base, faulty>>

\* os.replace(tmp, final); published.append(final)
Install ==
    /\ step = "install"
    /\ final' = Put(final, cur, tmp[cur])
    /\ tmp' = Put(tmp, cur, Absent)
    /\ todo' = todo \ {cur}
    /\ step' = "swap"
    /\ UNCHANGED <<bak, leftover, staged, backups, cur, run, base, faulty>>

\* A file-system call of the swap loop raises.
SwapFail ==
    /\ \/ step = "swap" /\ todo # {}
       \/ step \in {"moveAside", "install"}
    /\ todo' = {f \in Files : backups[f] # Unset}
    /\ step' = "rollback"
    /\ UNCHANGED <<final, tmp, bak, leftover, staged, backups, cur, run, base, faulty>>

\* A KeyboardInterrupt between the rename and the note that it was made: the
\* handler, which runs for every BaseException, does not know of this file.
Interrupt ==
    /\ step = "note"
    /\ faulty' = TRUE
    /\ todo' = {f \in Files : backups[f] # Unset}
    /\ step' = "rollback"
    /\ UNCHANGED <<final, tmp, bak, leftover, staged, backups, cur, run, base>>

\* final.unlink() of one recorded file, if it exists; its OSError is swallowed.
Unlink(f) ==
    /\ step = "rollback" /\ f \in todo
    /\ cur' = f
    /\ \/ final' = Put(final, f, Absent) /\ UNCHANGED faulty
       \/ final[f] # Absent /\ faulty' = TRUE /\ UNCHANGED final
    /\ step' = "restore"
    /\ UNCHANGED <<tmp, bak, leftover, staged, backups, todo, run, base>>

\* Mutant of Restore: the undo loop ends at the first file it restores.
RestoreFirst ==
    /\ step = "restore"
    /\ \/ /\ backups[cur] = "moved"
          /\ final' = Put(final, cur, bak[cur]) /\ bak' = Put(bak, cur, Absent)
          /\ todo' = {}
       \/ /\ backups[cur] = Absent
          /\ UNCHANGED <<final, bak>>
          /\ todo' = todo \ {cur}
    /\ step' = "rollback"
    /\ UNCHANGED <<tmp, leftover, staged, backups, cur, run, base, faulty>>

\* Mutant of Restore: a restore that fails is tried again.
RestoreRetries ==
    /\ step = "restore"
    /\ \/ /\ backups[cur] = "moved"
          /\ \/ final' = Put(final, cur, bak[cur]) /\ bak' = Put(bak, cur, Absent) /\ todo' = todo \ {cur}
             \/ UNCHANGED <<final, bak, todo>>
       \/ backups[cur] = Absent /\ todo' = todo \ {cur} /\ UNCHANGED <<final, bak>>
    /\ step' = "rollback"
    /\ UNCHANGED <<tmp, leftover, staged, backups, cur, run, base, faulty>>

\* os.replace(backup, final), if there is a backup; its OSError is swallowed.
Restore ==
    /\ step = "restore"
    /\ \/ /\ backups[cur] = "moved"
          /\ \/ final' = Put(final, cur, bak[cur]) /\ bak' = Put(bak, cur, Absent) /\ UNCHANGED faulty
             \/ faulty' = TRUE /\ UNCHANGED <<final, bak>>
       \/ backups[cur] = Absent /\ UNCHANGED <<final, bak, faulty>>
    /\ todo' = todo \ {cur}
    /\ step' = "rollback"
    /\ UNCHANGED <<tmp, leftover, staged, backups, cur, run, base>>

RolledBack ==
    /\ step = "rollback" /\ todo = {}
    /\ todo' = staged
    /\ step' = "unstage"
    /\ UNCHANGED <<final, tmp, bak, leftover, staged, backups, cur, run, base, faulty>>

\* The staged temp files are removed, and the exception is raised again.
Unstage(f) ==
    /\ step = "unstage" /\ f \in todo
    /\ \/ tmp' = Put(tmp, f, Absent) /\ UNCHANGED faulty
       \/ tmp[f] # Absent /\ faulty' = TRUE /\ UNCHANGED tmp
    /\ todo' = todo \ {f}
    /\ UNCHANGED <<final, bak, leftover, staged, backups, cur, step, run, base>>

Raise ==
    /\ step = "unstage" /\ todo = {}
    /\ step' = "raised"
    /\ UNCHANGED <<final, tmp, bak, leftover, staged, backups, todo, cur, run, base, faulty>>

\* Mutant of AllSwapped: the backups go as soon as the first file is in.
AllSwappedEarly ==
    /\ step = "swap" /\ todo # Files
    /\ base' = IF todo = {} THEN [f \in Files |-> run] ELSE base
    /\ todo' = {f \in Files : backups[f] = "moved"}
    /\ step' = "tidy"
    /\ UNCHANGED <<final, tmp, bak, leftover, staged, backups, cur, run, faulty>>

\* Every file is in place: from here on the bundle is this run's.
AllSwapped ==
    /\ step = "swap" /\ todo = {}
    /\ base' = [f \in Files |-> run]
    /\ todo' = {f \in Files : backups[f] = "moved"}
    /\ step' = "tidy"
    /\ UNCHANGED <<final, tmp, bak, leftover, staged, backups, cur, run, faulty>>

\* Mutant of Tidy: backups are kept.
TidyNothing(f) ==
    /\ step = "tidy" /\ f \in todo
    /\ todo' = todo \ {f}
    /\ UNCHANGED <<final, tmp, bak, leftover, staged, backups, cur, step, run, base, faulty>>

\* The backups are removed.
Tidy(f) ==
    /\ step = "tidy" /\ f \in todo
    /\ \/ bak' = Put(bak, f, Absent) /\ UNCHANGED faulty
       \/ faulty' = TRUE /\ UNCHANGED bak
    /\ todo' = todo \ {f}
    /\ UNCHANGED <<final, tmp, leftover, staged, backups, cur, step, run, base>>

Succeed ==
    /\ step = "tidy" /\ todo = {}
    /\ step' = "ok"
    /\ UNCHANGED <<final, tmp, bak, leftover, staged, backups, todo, cur, run, base, faulty>>

\* What this run's temp files hold stays in the directory under a name that no
\* later run looks for.
Abandon ==
    /\ leftover' = [f \in Files |-> leftover[f] \cup ({tmp[f], bak[f]} \ {Absent, Scrap})]
    /\ tmp' = [f \in Files |-> Absent]
    /\ bak' = [f \in Files |-> Absent]
    /\ step' = "idle"
    /\ UNCHANGED <<final, staged, backups, todo, cur, run, base, faulty>>

\* The script ends; it may be run again.
End == step \in {"ok", "raised"} /\ Abandon

\* The process is killed.
Crash == step \notin {"idle", "ok", "raised"} /\ Abandon

Progress ==
    \/ \E f \in Files : \/ Stage(f) \/ StageFail(f) \/ StartSwap(f)
                        \/ Unlink(f) \/ Unstage(f) \/ Tidy(f)
    \/ AllStaged \/ MoveAside \/ Note \/ Install \/ SwapFail \/ Interrupt
    \/ Restore \/ RolledBack \/ Raise \/ AllSwapped \/ Succeed \/ End

BundleNext == Begin \/ Progress \/ Crash

\* A script that has begun is not stopped half-way unless it is killed.
BundleSpec == BundleInit /\ [][BundleNext]_bundleVars /\ WF_bundleVars(Progress)
-----------------------------------------------------------------------------
Versions == 1..MaxRuns

BundleTypeOK ==
    /\ run \in Versions
    /\ final \in [Files -> Versions \cup {Absent}]
    /\ base \in [Files -> Versions \cup {Absent}]
    /\ tmp \in [Files -> Versions \cup {Absent, Scrap}]
    /\ bak \in [Files -> Versions \cup {Absent, Scrap}]
    /\ leftover \in [Files -> SUBSET Versions]
    /\ staged \subseteq Files /\ todo \subseteq Files
    /\ cur \in Files \cup {Absent}
    /\ backups \in [Files -> {"moved", Absent, Unset}]
    /\ step \in {"idle", "stage", "swap", "moveAside", "note", "install", "rollback",
               "restore", "unstage", "tidy", "ok", "raised"}
    /\ faulty \in BOOLEAN

\* "All-or-none applies to WRITER failure: if any stage or swap fails, the
\* previously published files are restored and the new ones removed": a run that
\* returns has installed the whole bundle, and one that raises has left every
\* file as it found it, unless undoing failed too.
AllOrNone ==
    /\ step = "ok" => \A f \in Files : final[f] = run
    /\ step = "raised" /\ ~faulty => final = base

\* Whatever fails and wherever the process is killed, no published file is lost:
\* until its replacement is complete the whole bundle that was there before the
\* run can still be put together from the directory.
NothingLost ==
    \A f \in Files : base[f] # Absent =>
        base[f] \in {final[f], tmp[f], bak[f]} \cup leftover[f]

\* A run that ends by itself leaves no copy of an envelope under a temporary
\* name: at most an empty or half-written file of the entry that failed.
LeavesNoCopies ==
    step \in {"ok", "raised"} /\ ~faulty =>
        \A f \in Files : {tmp[f], bak[f]} \subseteq {Absent, Scrap}

\* A run ends, with or without the bundle, however many steps fail: the script
\* is never half-way for good.
Ends == []<>(step \in {"ok", "raised", "idle"})
=============================================================================
