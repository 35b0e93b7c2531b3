-------------------------- MODULE MCMailboxClients --------------------------
(***************************************************************************)
(* An instance of MailboxClients for TLC: one mailbox, two writers and two *)
(* readers, as in dump/listMonitorTest.c, with three calls each.           *)
(***************************************************************************)
EXTENDS MailboxClients

CONSTANTS w1, w2, r1, r2, hello, raw, box, list

MCMailbox == {box}
MCList    == {list}
MCListOf  == [m \in MCMailbox |-> list]
MCThread  == {w1, w2, r1, r2}
MCWriter  == {w1, w2}
MCBoxOf   == [t \in MCThread |-> box]

\* A message copied with its terminator is read back as it is; one without is
\* read with whatever follows it in memory, which can make it another message.
MCMessage == {hello, raw}
MCReads   == [m \in MCMessage |-> IF m = raw THEN {raw, hello} ELSE {m}]
=============================================================================
