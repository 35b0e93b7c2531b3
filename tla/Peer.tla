-------------------------------- MODULE Peer --------------------------------
(***************************************************************************)
(* What one s-talk process does to messages, seen from the keyboard, the   *)
(* screen and the network: no threads, locks, mailboxes or lists.          *)
(*                                                                         *)
(* What comes in is inside until the sender or the display takes it.  Each *)
(* has one buffer; a turn that finds nothing inside uses the buffer as it  *)
(* is.  Whoever has seen "!" may put bare escape characters inside.        *)
(***************************************************************************)
EXTENDS Naturals, Sequences

CONSTANTS
  Message, Line, Datagram,
  Reads,                       \* what can be read from each stored message
  Bang, RawBang, Junk, Blank,
  MaxTyped, MaxArrived         \* bounds on what comes in

VARIABLES
  inside,   \* how many of each message have come in and not been taken
  buffer,   \* the buffers of the sender and of the display
  full,     \* whose buffer is about to be sent or shown
  closing,  \* the process is shutting down
  typed, arrived, sent, shown

peerVars == <<inside, buffer, full, closing, typed, arrived, sent, shown>>

Taker == {"sender", "display"}

PeerInit ==
  /\ inside = [m \in Message |-> 0]
  /\ buffer = [t \in Taker |-> Junk]
  /\ full = [t \in Taker |-> FALSE]
  /\ closing = FALSE
  /\ typed = <<>> /\ arrived = <<>> /\ sent = <<>> /\ shown = <<>>

ComesIn(m) == inside' = [inside EXCEPT ![m] = @ + 1]

Type(m) ==
  /\ Len(typed) < MaxTyped
  /\ typed' = Append(typed, m)
  /\ UNCHANGED <<buffer, full, closing, arrived, sent, shown>>
  /\ ComesIn(m)

Arrive(m) ==
  /\ Len(arrived) < MaxArrived
  /\ arrived' = Append(arrived, m)
  /\ UNCHANGED <<buffer, full, closing, typed, sent, shown>>
  /\ ComesIn(m)

\* Mutation: bytes nobody wrote pass for "!", as with a comparison of one
\* character.
SeenBangPrefix ==
  \/ \E i \in DOMAIN typed : typed[i] \in {Bang, Junk}
  \/ \E i \in DOMAIN arrived : arrived[i] \in {Bang, Junk}
  \/ buffer["sender"] \in {Bang, Junk} /\ ~full["sender"]

\* Who has seen "!": the reader, the receiver, or the sender in its buffer.
SeenBang ==
  \/ \E i \in DOMAIN typed : typed[i] = Bang
  \/ \E i \in DOMAIN arrived : arrived[i] = Bang
  \/ buffer["sender"] = Bang /\ ~full["sender"]

\* The thread that has seen "!" sets the flag and puts a bare "!" inside.
Close ==
  /\ SeenBang
  /\ closing' = TRUE
  /\ UNCHANGED <<buffer, full, typed, arrived, sent, shown>>
  /\ ComesIn(RawBang)

Fill(t, m) ==
  /\ buffer' = [buffer EXCEPT ![t] = m]
  /\ full' = [full EXCEPT ![t] = TRUE]
  /\ UNCHANGED <<closing, typed, arrived, sent, shown>>

\* Mutation: the message is passed on as it is stored.
TakeStored(t, m) ==
  /\ ~full[t]
  /\ Fill(t, m)
  /\ inside[m] > 0
  /\ inside' = [inside EXCEPT ![m] = @ - 1]

Take(t, m) ==
  /\ ~full[t]
  /\ \E text \in Reads[m] : Fill(t, text)
  /\ inside[m] > 0
  /\ inside' = [inside EXCEPT ![m] = @ - 1]

\* The other one has been quicker: the buffer is used as it is.
TakeNothing(t) == ~full[t] /\ Fill(t, buffer[t]) /\ UNCHANGED inside

Emptied(t) == full[t] /\ full' = [full EXCEPT ![t] = FALSE]

\* The sender's buffer keeps the message.
Send ==
  /\ Emptied("sender")
  /\ sent' = Append(sent, buffer["sender"])
  /\ UNCHANGED <<inside, buffer, closing, typed, arrived, shown>>

SendFails ==
  /\ Emptied("sender")
  /\ UNCHANGED <<inside, buffer, closing, typed, arrived, sent, shown>>

Show ==
  /\ Emptied("display") /\ buffer["display"] # Bang
  /\ shown' = Append(shown, buffer["display"])
  /\ buffer' = [buffer EXCEPT !["display"] = Blank]
  /\ UNCHANGED <<inside, closing, typed, arrived, sent>>

ShowNothing ==
  /\ Emptied("display") /\ buffer["display"] = Bang
  /\ UNCHANGED <<inside, buffer, closing, typed, arrived, sent, shown>>

\* What the process does without anything coming in.
Inner ==
  \/ Close
  \/ \E t \in Taker : TakeNothing(t) \/ \E m \in Message : Take(t, m)
  \/ SendFails \/ Show \/ ShowNothing

PeerNext ==
  \/ \E m \in Line : Type(m)
  \/ \E m \in Datagram : Arrive(m)
  \/ Inner \/ Send

PeerSpec == PeerInit /\ [][PeerNext]_peerVars
=============================================================================
