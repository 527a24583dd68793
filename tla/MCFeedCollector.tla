-------------------------- MODULE MCFeedCollector --------------------------
(***************************************************************************)
(* Small instances of FeedCollector.                                       *)
(***************************************************************************)
EXTENDS FeedCollector, TLC

Few == 0 .. 2
More == 0 .. 3

Exchange == Permutations(Collector)

\* Two collectors at a time see few genuine messages, one at most in a packet, and do not
\* reconnect; one alone sees all.  Two are not shown a reliable relay: the other relay may
\* do whatever that one does, and what is said of that one is said of a lone collector.
Plain(c) ==
  /\ Len(packet[c]) < 2 /\ reconnects[c] = 0
  /\ \A i \in DOMAIN packet[c] : packet[c][i].digest = Genuine
SharedIsSmall ==
  \A c, d \in Collector : c # d /\ pc[c] # "idle" /\ pc[d] # "idle" =>
    ~reliable /\ head \in Few /\ Plain(c) /\ Plain(d)

=============================================================================
