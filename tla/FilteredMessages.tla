------------------------- MODULE FilteredMessages -------------------------
(***************************************************************************)
(* The pure part of lib_shared/messages.py: whether a configuration lets a *)
(* message be displayed.  A message is a model value; what a rule's        *)
(* pattern says about bodies and ids is the set of messages it matches.    *)
(***************************************************************************)
EXTENDS Naturals

CONSTANTS
    Message,      \* message ids, unique per stored message
    Sender,       \* normalized phone numbers
    SenderOf,     \* the sender of each message
    ReceivedAt    \* the received_at stamp of each message

ASSUME MessageAssumption ==
    /\ SenderOf \in [Message -> Sender]
    /\ ReceivedAt \in [Message -> Nat]

\* A suppress rule of the config: its lifecycle status and what it matches.
Rule == [status : {"enabled", "disabled"}, matches : SUBSET Message]

\* The fields of a SignConfig the display decision reads.  `sha` identifies
\* the saved version; `senders` maps each listed phone to its allowed flag.
ConfigWith(sha, enforce, senders, filters) ==
    [sha |-> sha, enforce |-> enforce, senders |-> senders, filters |-> filters]

ShouldRenderSender(s, cfg) ==
    cfg.enforce => s \in DOMAIN cfg.senders /\ cfg.senders[s]

\* The enabled rules that suppress m.
ApplyFilter(m, rules) ==
    {r \in rules : r.status = "enabled" /\ m \in r.matches}

\* The `suppressed` flag _enrich_messages computes for m.
Suppressed(cfg, m) ==
    \/ ~ShouldRenderSender(SenderOf[m], cfg)
    \/ ApplyFilter(m, cfg.filters) # {}

===========================================================================
