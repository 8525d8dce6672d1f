---------------------------- MODULE MCSplitter ----------------------------
(* An instance of Splitter for TLC: a service whose PMT changes to a section of
   two packets and then to one whose second packet starts among descriptors,
   and a 1seg service. *)
EXTENDS Splitter, TLC

Es(type, pid, len) == [type |-> type, pid |-> pid, len |-> len]

MCPat == <<[sid |-> "101", pid |-> "pmtA"], [sid |-> "385", pid |-> OneSegPmt]>>
MCPmt ==
  ("pmtA" :> << [pcr |-> "v1", ca |-> {"ecm"}, es |-> <<Es("av", "v1", 2), Es("av", "a1", 2)>>],
                [pcr |-> "v2", ca |-> {"ecm"},
                 es |-> <<Es("av", "v2", 2), Es("data", "d2", 3), Es("av", "a1", 3)>>],
                [pcr |-> "v1", ca |-> {}, es |-> <<Es("av", "v1", 3), Es("av", "a3", 3)>>] >>
   @@ OneSegPmt :> << [pcr |-> "vs", ca |-> {"ecm"}, es |-> <<Es("av", "vs", 2)>>] >>)

MCSidTexts ==
  { <<"101">>, <<"1seg", "">>, <<"all">>, <<"hd", "epg">>, <<"epg1seg">>, <<"999">>, <<"sd2", "sd3">> }

\* What NothingMissing in SplitterProofs asks for
ASSUME MCCounterTells == CounterTells
=============================================================================
