---------------------------- MODULE TelnetFraming -----------------------------
(* RFC 854 framing (microtun-telnet): what push_subnegotiation, push_cmd and    *)
(* write_data_unflushed put on the wire, and the receiver that Telnet::feed is, *)
(* one byte at a time.  A payload byte may have the value of any command code.  *)
EXTENDS Naturals, Sequences, SequencesExt

CONSTANTS
    Payload,    \* byte values data and subnegotiation bodies are made of
    SbCap,      \* SB_CAP: bytes of a subnegotiation body that are kept
    MaxBody,    \* bound: bytes of a subnegotiation body sent
    MaxItems    \* bound: items sent

Verbs == {"DO", "DONT", "WILL", "WONT"}
Bodies == UNION {[1..n -> Payload] : n \in 0..MaxBody}

Items == [kind : {"data"}, byte : Payload] \cup [kind : {"option"}, verb : {"DO", "WONT"}]
         \cup [kind : {"sb"}, body : Bodies] \cup {[kind |-> "ip"], [kind |-> "nop"]}

VARIABLES
    sent,       \* items written, in order
    bytes,      \* on their way
    rx,         \* RxState
    subneg,     \* the body so far
    got         \* events delivered

frameVars == <<sent, bytes, rx, subneg, got>>

\* Mutant: a body's IAC is sent once.
EscapedOnce(body) == body

Escaped(body) == FlattenSeq([i \in DOMAIN body |->
                     IF body[i] = "IAC" THEN <<"IAC", "IAC">> ELSE <<body[i]>>])

Encode(item) ==
    CASE item.kind = "data"   -> Escaped(<<item.byte>>)
      [] item.kind = "option" -> <<"IAC", item.verb, "opt">>
      [] item.kind = "sb"     -> <<"IAC", "SB", "opt">> \o Escaped(item.body) \o <<"IAC", "SE">>
      [] item.kind = "ip"     -> <<"IAC", "IP">>
      [] item.kind = "nop"    -> <<"IAC", "NOP">>

Pushed(body, b) == IF Len(body) < SbCap THEN Append(body, b) ELSE body

\* Telnet::feed: the state, body and events after byte b.
Feed(b) ==
    LET st(r, body, events) == [rx |-> r, subneg |-> body, events |-> events] IN
    CASE rx = "Data" /\ b = "IAC"  -> st("Iac", subneg, <<>>)
      [] rx = "Data" /\ b # "IAC"  -> st("Data", subneg, <<[kind |-> "data", byte |-> b]>>)
      [] rx = "Iac" /\ b = "IAC"   -> st("Data", subneg, <<[kind |-> "data", byte |-> b]>>)
      [] rx = "Iac" /\ b \in Verbs -> st(b, subneg, <<>>)
      [] rx = "Iac" /\ b = "SB"    -> st("SubnegOption", subneg, <<>>)
      [] rx = "Iac" /\ b = "IP"    -> st("Data", subneg, <<[kind |-> "ip"]>>)
      [] rx = "Iac" /\ b \notin Verbs \cup {"IAC", "SB", "IP"} -> st("Data", subneg, <<>>)
      [] rx \in Verbs              -> st("Data", subneg, <<[kind |-> "option", verb |-> rx]>>)
      [] rx = "SubnegOption"       -> st("Subneg", <<>>, <<>>)
      [] rx = "Subneg"             -> IF b = "IAC" THEN st("SubnegIac", subneg, <<>>)
                                      ELSE st("Subneg", Pushed(subneg, b), <<>>)
      [] rx = "SubnegIac" /\ b = "SE"  -> st("Data", subneg, <<[kind |-> "sb", body |-> subneg]>>)
      [] rx = "SubnegIac" /\ b = "IAC" -> st("Subneg", Pushed(subneg, b), <<>>)
      [] rx = "SubnegIac" /\ b \notin {"SE", "IAC"} -> st("Data", subneg, <<>>)

SendItem(item) ==
    /\ Len(sent) < MaxItems
    /\ sent' = Append(sent, item)
    /\ bytes' = bytes \o Encode(item)
    /\ UNCHANGED <<rx, subneg, got>>

FeedByte ==
    /\ bytes # <<>>
    /\ LET f == Feed(Head(bytes)) IN
       /\ rx' = f.rx
       /\ subneg' = f.subneg
       /\ got' = got \o f.events
    /\ bytes' = Tail(bytes)
    /\ UNCHANGED sent

FrameInit == sent = <<>> /\ bytes = <<>> /\ rx = "Data" /\ subneg = <<>> /\ got = <<>>
FrameNext == FeedByte \/ \E item \in Items : SendItem(item)
FrameSpec == FrameInit /\ [][FrameNext]_frameVars

-------------------------------------------------------------------------------
\* What the receiver makes of an item: a body beyond SB_CAP is cut.
Seen(item) == CASE item.kind = "nop" -> <<>>
                [] item.kind = "sb"  -> <<[item EXCEPT !.body = SubSeq(@, 1, IF Len(@) > SbCap
                                                                            THEN SbCap ELSE Len(@))]>>
                [] OTHER             -> <<item>>

(* Framing is transparent: at every byte the receiver has delivered a prefix of *)
(* what was sent, whatever byte values the data has and however long a body is, *)
(* and when the wire is empty it has delivered everything and is back in the    *)
(* state between items.                                                         *)
FramingTransparent ==
    LET all == FlattenSeq([i \in DOMAIN sent |-> Seen(sent[i])])
    IN  /\ IsPrefix(got, all)
        /\ bytes = <<>> => got = all /\ rx = "Data"
===============================================================================
