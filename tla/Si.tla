--------------------------------- MODULE Si ---------------------------------
(***************************************************************************)
(* The serial interface (runtime/src/si.c): controllers, polled by the     *)
(* video beam on a schedule, or asked by the guest through a buffer. A     *)
(* poll latches a report for a controller that is there and "no response"  *)
(* for one that is not; reading the report clears its latch.               *)
(***************************************************************************)
EXTENDS Pi

CONSTANTS
    Ports,        \* controller channels, four in the code
    Connected,    \* those with a controller
    PollDelay,    \* GCN_SI_NUM_HALF_LINES_FOR_POLL
    PollPeriods   \* values of the poll register's period, in lines, 0 among them

ASSUME SiAssumption ==
    /\ Connected \subseteq Ports /\ PollDelay \in Nat \ {0}
    /\ PollPeriods \subseteq Nat
    /\ \E x \in PollPeriods : \A y \in PollPeriods : y <= x

VARIABLES si   \* the registers, the latches and the schedule

Periodic == CHOOSE x \in PollPeriods : \A y \in PollPeriods : y <= x

SiInit ==
    si = [rdst |-> {}, norep |-> {}, tcint |-> FALSE, masks |-> {}, period |-> Periodic,
          next |-> PollDelay]

SiLevel(s) ==
    \/ s.rdst # {} /\ "RDST" \in s.masks
    \/ s.tcint /\ "TC" \in s.masks

\* si_poll
Polled(s) == [s EXCEPT !.rdst = @ \cup Connected, !.norep = @ \cup (Ports \ Connected)]

\* gcn_si_beam_poll: a poll that is due, then its successor in this field, then the
\* field boundary, which starts the schedule over.
Due(s, half) == half = s.next

\* Mutant: the field boundary does not start the schedule over.
BeamPollOnce(s, half, boundary) ==
    IF Due(s, half) THEN [Polled(s) EXCEPT !.next = @ + 2 * s.period] ELSE s

BeamPoll(s, half, boundary) ==
    LET polled == IF Due(s, half) THEN [Polled(s) EXCEPT !.next = @ + 2 * s.period] ELSE s
    IN  IF boundary THEN [polled EXCEPT !.next = half + PollDelay] ELSE polled

\* The guest reads one half of a report: its latch is gone, the line follows.
SiReadReport(n) ==
    /\ si' = [si EXCEPT !.rdst = @ \ {n}]
    /\ Push("SI", SiLevel(si'))

\* The guest writes SICOMCSR: masks, the acknowledge, and a transfer, which is over
\* when the write is and finds a controller or no response.
SiWriteComcsr(masks, ack, start, n) ==
    LET set == [si EXCEPT !.masks = masks, !.tcint = @ /\ ~ack]
    IN  /\ si' = IF ~start THEN set
                 ELSE [set EXCEPT !.tcint = TRUE,
                                  !.norep = IF n \in Connected THEN @ ELSE @ \cup {n}]
        /\ Push("SI", SiLevel(si'))

\* The guest writes SISR: "no response" bits are cleared.
SiWriteSisr(ns) ==
    /\ si' = [si EXCEPT !.norep = @ \ ns]
    /\ Push("SI", SiLevel(si'))

\* The guest writes SIPOLL; the schedule reads it at the next poll.
SiWritePoll(x) == si' = [si EXCEPT !.period = x] /\ UNCHANGED pivars

\* A guest that asks the controllers at these ports.
SiTransfers(ns) ==
    \E masks \in {{}, {"RDST", "TC"}}, ack \in BOOLEAN :
        \/ \E n \in ns : SiWriteComcsr(masks, ack, TRUE, n)
        \/ SiWriteComcsr(masks, ack, FALSE, 0)

SiNext ==
    \/ \E n \in Ports : SiReadReport(n)
    \/ SiTransfers(Ports)
    \/ \E ns \in {{}, Ports} : SiWriteSisr(ns)
    \/ \E x \in PollPeriods : SiWritePoll(x)

SiTypeOK ==
    /\ si.rdst \subseteq Connected /\ si.norep \subseteq Ports \ Connected
    /\ si.masks \subseteq {"RDST", "TC"} /\ si.tcint \in BOOLEAN
    /\ si.period \in PollPeriods /\ si.next \in Nat
=============================================================================
