-------------------------- MODULE CommandService ---------------------------
(***************************************************************************)
(* What the FTP command queue promises its callers, with no threads, no    *)
(* flag and no protocol states: commands are served one at a time, in the  *)
(* order they were queued, none before the login is over, and the reply to *)
(* a command retires that command and no other, except that a refused PASV *)
(* takes the transfer of the same call with it.                            *)
(***************************************************************************)
EXTENDS FtpCommands

CONSTANT Command   \* queued commands: records with at least cmd and call

VARIABLES pending,   \* accepted and not yet retired
          current,   \* <<>>, or the one command the server is working on
          open       \* the login exchange is over

serviceVars == <<pending, current, open>>

Init == pending = <<>> /\ current = <<>> /\ open = FALSE

Submit(c) == pending' = Append(pending, c) /\ UNCHANGED <<current, open>>

Open == ~open /\ open' = TRUE /\ UNCHANGED <<pending, current>>

\* A failed login drops what was queued until then.
Reject == ~open /\ open' = TRUE /\ pending' = <<>> /\ UNCHANGED current

Issue ==
  /\ open /\ current = <<>> /\ pending # <<>>
  /\ current' = <<Head(pending)>>
  /\ UNCHANGED <<pending, open>>

Retire ==
  /\ current # <<>> /\ pending # <<>> /\ current[1] = Head(pending)
  /\ pending' = Tail(pending)
  /\ current' = <<>>
  /\ UNCHANGED open

RetireRefused ==
  /\ Len(pending) >= 2 /\ current = <<Head(pending)>>
  /\ pending[1].cmd = "PASV" /\ IsTransferCommand(pending[2].cmd)
  /\ pending[1].call = pending[2].call
  /\ pending' = Tail(Tail(pending))
  /\ current' = <<>>
  /\ UNCHANGED open

Next == (\E c \in Command : Submit(c)) \/ Open \/ Reject \/ Issue \/ Retire \/ RetireRefused

Spec == Init /\ [][Next]_serviceVars
============================================================================
