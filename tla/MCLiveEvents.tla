---------------------------- MODULE MCLiveEvents ----------------------------
(* Rules, chunks and starts of the run of LiveEvents.                       *)
EXTENDS LiveEvents

MCKeys == <<"a", "b">>
MCLevels == {"low", "mid", "high"}
Latched == [on |-> {"high"}, off |-> {"low"}, minDur |-> 0]
Lasting == [on |-> {"high"}, off |-> {}, minDur |-> 2]
MCRules == {Latched, Lasting}
MCChunks == {<<l>> : l \in MCLevels} \union {<<"low", "high">>, <<"high", "low">>}
StartOf(rule, levels) == [rule |-> rule, levels |-> levels]
MCStarts == { "a" :> StartOf(Latched, <<>>) @@ "b" :> StartOf(Lasting, <<>>),
              "a" :> StartOf(Lasting, <<"high">>) @@ "b" :> StartOf(Latched, <<>>) }
MCMaxSamples == "a" :> 3 @@ "b" :> 1
Config(f, c, s, p) == [feed |-> f, cluster |-> c, sharing |-> s, persist |-> p]
MCConfigs == { Config("stream", FALSE, "none", FALSE), Config("stream", FALSE, "none", TRUE),
               Config("pipeline", FALSE, "none", FALSE), Config("pipeline", FALSE, "own", TRUE),
               Config("pipeline", FALSE, "store", FALSE), Config("pipeline", TRUE, "own", FALSE) }
=============================================================================
