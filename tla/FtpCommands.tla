---------------------------- MODULE FtpCommands ----------------------------
(***************************************************************************)
(* The vocabulary of CProtocolFTP: the calls of its public API, the FTP    *)
(* commands each of them queues, and the class of a command, which is also *)
(* the protocol state its reply is interpreted in.                         *)
(***************************************************************************)
EXTENDS Sequences, Integers

\* The public calls.  SetCurrentDir, CreateDir and RemoveDir queue one
\* general command exactly as GetCurrentDir does and are represented by it.
Apis == {"Upload", "Download", "ListDirectory", "GetCurrentDir", "Quit"}

TransferCommands == {"STOR", "RETR", "LIST"}

CommandNames == TransferCommands \cup {"PASV", "PBSZ", "PROT", "TYPE", "PWD", "QUIT"}

IsTransferCommand(cmd) == cmd \in TransferCommands

\* The protocol state ProcessNextCmd enters before it sends a command.
ClassOf(cmd) ==
  IF IsTransferCommand(cmd) THEN "DATA" ELSE IF cmd = "PASV" THEN "PASV" ELSE "GEN"

\* What SetDCProtLevel queues ahead of a transfer: only a session whose
\* control channel uses TLS negotiates the protection of the data channel.
SetDCProtLevel(tls) == IF tls THEN <<"PBSZ", "PROT">> ELSE <<>>

\* The commands one call appends to iCmdQ, under one hold of iLock.
CommandsOf(api, tls) ==
  CASE api = "Upload"        -> SetDCProtLevel(tls) \o <<"PASV", "STOR">>
    [] api = "Download"      -> SetDCProtLevel(tls) \o <<"PASV", "RETR">>
    [] api = "ListDirectory" -> SetDCProtLevel(tls) \o <<"TYPE", "PASV", "LIST">>
    [] api = "GetCurrentDir" -> <<"PWD">>
    [] api = "Quit"          -> <<"QUIT">>
============================================================================
