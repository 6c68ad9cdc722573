-------------------------- MODULE StatuslineProfile -------------------------
(***************************************************************************)
(* A Claude Code profile under installations, removals, edits by the user  *)
(* and interruptions.  InstallStatusline replaces two files one after the  *)
(* other (internal/claude/profile.go:385-388); a crash or a failed write   *)
(* may leave the second one undone.  Each file is replaced atomically.     *)
(***************************************************************************)
EXTENDS ProfileFiles

CONSTANT MaxBindings  \* bound on the bindings issued

ASSUME BindingsAssumption == MaxBindings \in Nat

VARIABLES
  line,     \* statusLine command of settings.json
  side,     \* the sidecar
  writing,  \* an installation between its two writes
  newest,   \* number of bindings issued: the newest of them
  own,      \* history: the statusline the user last chose
  torn,     \* history: an installation was interrupted between its writes
  removed   \* history: the last finished operation was UninstallStatusline

profileVars == <<line, side, writing, newest, own, torn, removed>>

ProfileInit ==
  /\ own \in Lines /\ line = UserLine(own)
  /\ side = NoSidecar /\ writing = FALSE /\ newest = 0
  /\ torn = FALSE /\ removed = FALSE

Install ==
  /\ ~writing /\ newest < MaxBindings
  /\ newest' = newest + 1
  /\ side' = NewSidecar(line, side, newest')
  /\ writing' = TRUE /\ removed' = FALSE
  /\ UNCHANGED <<line, own, torn>>

InstallSettings ==
  /\ writing /\ writing' = FALSE
  /\ line' = side.command
  /\ UNCHANGED <<side, newest, own, torn, removed>>

\* The process dies, or replacing settings.json fails and the error is returned.
InstallInterrupted ==
  /\ writing /\ writing' = FALSE
  /\ torn' = TRUE
  /\ UNCHANGED <<line, side, newest, own, removed>>

\* mutant: the sidecar's original is written back whoever owns the line now
UninstallAlways ==
  /\ ~writing /\ side # NoSidecar
  /\ line' = side.original
  /\ removed' = TRUE
  /\ UNCHANGED <<side, writing, newest, own, torn>>

Uninstall ==
  /\ ~writing /\ side # NoSidecar
  /\ line' = Restored(line, side)
  /\ removed' = TRUE
  /\ UNCHANGED <<side, writing, newest, own, torn>>

Confirm(account) ==
  /\ ~writing /\ MayConfirm(line, side, newest)
  /\ side' = Confirmed(side, account)
  /\ UNCHANGED <<line, writing, newest, own, torn, removed>>

Forget ==
  /\ ~writing
  /\ side' = Forgotten(side)
  /\ UNCHANGED <<line, writing, newest, own, torn, removed>>

\* The user replaces the statusline, not while an installation is writing.
Edit(chosen) ==
  /\ ~writing
  /\ own' = chosen /\ line' = UserLine(chosen)
  /\ UNCHANGED <<side, writing, newest, torn, removed>>

ProfileNext ==
  \/ Install \/ InstallSettings \/ InstallInterrupted \/ Uninstall \/ Forget
  \/ \E account \in Accounts \cup {NoAccount} : Confirm(account)
  \/ \E chosen \in Lines : Edit(chosen)

ProfileSpec == ProfileInit /\ [][ProfileNext]_profileVars
-----------------------------------------------------------------------------
ProfileTypeOK ==
  /\ line \in Command
  /\ side \in Sidecar \cup {NoSidecar}
  /\ {writing, torn, removed} \subseteq BOOLEAN
  /\ newest \in 0..MaxBindings /\ own \in Lines

\* Whatever is interrupted, the user's current statusline is what the profile
\* runs, directly or behind the adapters: none is lost and none comes back.
OwnLineKept == line.own = own

\* The README promise "기존 statusline이 있으면 보존해 그대로 호출하고 해제 때 복원한다":
\* unless an installation was interrupted, an adapter never forwards to an older
\* adapter, and after an uninstallation the user's line stands alone.
CleanUnlessTorn ==
  ~torn =>
    /\ Len(line.adapters) <= 1
    /\ removed => line = UserLine(own)

\* The same for every history of the profile, as the test
\* TestProfileStatuslineInstallUninstallPreservesAndDoesNotNest names it.
DoesNotNest == Len(line.adapters) <= 1

\* The only binding a restart can restore is the newest one issued, and it is the
\* one the statusline reports to: no interrupted or superseded installation comes
\* back.
RestoredIsNewest ==
  InstalledBinding(line, side) # NoBinding =>
    /\ InstalledBinding(line, side) = newest
    /\ line.adapters # <<>> /\ Head(line.adapters) = newest
=============================================================================
