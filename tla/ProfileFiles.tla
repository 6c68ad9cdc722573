---------------------------- MODULE ProfileFiles ----------------------------
(***************************************************************************)
(* The two files of a Claude Code profile that turzx-control writes, and   *)
(* what each operation of internal/claude (profile.go, binding.go) makes   *)
(* of them: the statusLine command of settings.json, and the sidecar that  *)
(* remembers the command it replaced.                                      *)
(*                                                                         *)
(* A command line is the user's own statusline with the adapters in front  *)
(* of it, outermost first: an installed adapter calls what it replaced as  *)
(* its -forward-command.  Two commands are equal when the binding ids and  *)
(* the forwarded commands are.  Everything else in settings.json is kept   *)
(* as it is and left out here.                                             *)
(***************************************************************************)
EXTENDS Naturals, Sequences

CONSTANTS
  Lines,      \* the user's own statuslines, one of them "no statusLine"
  Accounts,   \* Claude accounts with an address
  NoAccount,  \* logged out, or an address was never recorded
  NoBinding,
  NoSidecar

ASSUME FilesAssumption ==
  /\ NoAccount \notin Accounts
  /\ NoBinding \notin Nat

Command == [adapters : Seq(Nat), own : Lines]
Sidecar == [command : Command, original : Command, binding : Nat,
            confirmed : BOOLEAN, account : Accounts \cup {NoAccount}]

ASSUME SidecarAssumption == NoSidecar \notin Sidecar

UserLine(own) == [adapters |-> <<>>, own |-> own]

\* mutant: the installed command is taken for a line of the user's
OriginalUnchecked(line, side) == line

\* What an installation will restore: a line that is ours is looked through.
Original(line, side) ==
  IF side # NoSidecar /\ line = side.command THEN side.original ELSE line

AdapterCommand(binding, forward) ==
  [adapters |-> <<binding>> \o forward.adapters, own |-> forward.own]

\* InstallStatusline writes first the sidecar and then the settings.
NewSidecar(line, side, binding) ==
  [command |-> AdapterCommand(binding, Original(line, side)),
   original |-> Original(line, side),
   binding |-> binding, confirmed |-> FALSE, account |-> NoAccount]

IsOurs(line, side) == side # NoSidecar /\ line = side.command

\* UninstallStatusline: a no-op when the current command is no longer ours.
Restored(line, side) == IF IsOurs(line, side) THEN side.original ELSE line

\* ConfirmStatusline
MayConfirm(line, side, binding) == IsOurs(line, side) /\ side.binding = binding
Confirmed(side, account) == [side EXCEPT !.confirmed = TRUE, !.account = account]

\* ForgetStatuslineConfirmation
Forgotten(side) == IF side = NoSidecar THEN side ELSE [side EXCEPT !.confirmed = FALSE]

\* mutant: the current command is not compared with the installed one
InstalledUnchecked(line, side) ==
  IF side # NoSidecar /\ side.confirmed THEN side.binding ELSE NoBinding

\* InstalledBinding and InstalledAccount
InstalledBinding(line, side) ==
  IF IsOurs(line, side) /\ side.confirmed THEN side.binding ELSE NoBinding
InstalledAccount(side) ==
  IF side # NoSidecar /\ side.confirmed THEN side.account ELSE NoAccount
=============================================================================
