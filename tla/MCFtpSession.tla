--------------------------- MODULE MCFtpSession ----------------------------
(* Scripts, servers and networks for the runs of FtpSession. *)
EXTENDS FtpSession

Api(name)      == [api |-> name, local |-> FALSE, cbk |-> {}, prot |-> "Clear"]
Get(cbk, prot) == [api |-> "Download", local |-> TRUE, cbk |-> cbk, prot |-> prot]
Put(cbk, prot) == [api |-> "Upload", local |-> TRUE, cbk |-> cbk, prot |-> prot]
List(prot)     == [api |-> "ListDirectory", local |-> FALSE, cbk |-> {TRUE}, prot |-> prot]

\* The application scripts, after test_ftp_client.
ListGetPut == <<List("Protected"), Get({TRUE}, "Clear"), Put(BOOLEAN, "Protected"), Api("Quit")>>
StopMidway == <<Get(BOOLEAN, "Protected"), Put(BOOLEAN, "Protected"), Api("Stop"), Api("GetCurrentDir")>>
GetGet     == <<Get({TRUE}, "Clear"), Get({TRUE}, "Clear")>>
OnePut     == <<Put({TRUE}, "Clear")>>

\* A login that succeeds, then transfers that complete or are refused.
Usual == [k \in Kinds |->
  CASE k \in {"GREETING", "AUTH", "PASS", "ACCT", "GEN"} -> {"2"} [] k = "USER" -> {"3"}
    [] k = "PASV" -> {"2", "4", "5"} [] k = "DATA" -> {"1", "4", "5"} [] k = "1yz" -> {"2", "4"}]

\* Every first digit RFC 959 lets a server answer with.
Any == [k \in Kinds |->
  CASE k = "GREETING" -> {"1", "2", "4"} [] k = "AUTH" -> {"2", "3", "4", "5"}
    [] k \in {"USER", "PASS", "ACCT"} -> {"2", "3", "4", "5"} [] k = "GEN" -> {"2", "4", "5"}
    [] k = "PASV" -> {"2", "4", "5"} [] k = "DATA" -> {"1", "4", "5"} [] k = "1yz" -> {"2", "4", "5"}]
============================================================================
