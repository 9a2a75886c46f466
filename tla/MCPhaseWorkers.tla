---------------------------- MODULE MCPhaseWorkers ----------------------------
EXTENDS PhaseWorkers, TLC

Op(kind, name, args, res) ==
    [kind |-> kind, name |-> name, args |-> args, res |-> res,
     ins |-> Len(args), outs |-> Len(res), fault |-> FALSE]

(* The emitter's own test: three units in a chain, the clock and the output   *)
(* through an assign, a constant input; here with a way back from the last    *)
(* unit and a fourth one that only reads: slices of different lengths.        *)
Chain ==
    [inputs |-> {"clk", "data"},
     ops |-> <<Op("assign", "ao", <<"outData">>, <<"outAlias">>),
               Op("assign", "ac", <<"clk">>, <<"linkClk">>),
               Op("const", "k", <<>>, <<"sel">>),
               Op("instance", "effect", <<"linkClk", "data", "outAlias">>, <<"effectOut">>),
               Op("instance", "part0", <<"linkClk", "effectOut">>, <<"mid">>),
               Op("instance", "part1", <<"mid", "sel">>, <<"outData">>),
               Op("instance", "monitor", <<"linkClk", "mid">>, <<>>)>>,
     outputs |-> 1 :> "outAlias"]
\* two units that read each other, aliases listed against the flow; a third
\* unit that nobody reads
Crossed ==
    [inputs |-> {"clk"},
     ops |-> <<Op("instance", "a", <<"y3">>, <<"x">>),
               Op("instance", "b", <<"x">>, <<"y">>),
               Op("instance", "c", <<"clk">>, <<"unused">>),
               Op("assign", "s3", <<"y2">>, <<"y3">>),
               Op("assign", "s2", <<"y1">>, <<"y2">>),
               Op("assign", "s1", <<"y">>, <<"y1">>)>>,
     outputs |-> (1 :> "x" @@ 2 :> "y2")]
\* nobody reads anybody: no update function at all
Mute ==
    [inputs |-> {"clk"},
     ops |-> <<Op("instance", "a", <<"clk">>, <<"x">>),
               Op("instance", "b", <<"clk">>, <<"y">>)>>,
     outputs |-> <<>>]
Single ==
    [inputs |-> {"clk"},
     ops |-> <<Op("instance", "a", <<"clk", "x">>, <<"x">>)>>,
     outputs |-> 1 :> "x"]
\* refused: an output of the top that an input drives
Through ==
    [inputs |-> {"clk"},
     ops |-> <<Op("instance", "a", <<"clk">>, <<"x">>),
               Op("assign", "s", <<"clk">>, <<"thru">>)>>,
     outputs |-> 1 :> "thru"]
\* refused: a part that reads a slice of a bundled port
Bundled ==
    [inputs |-> {"clk"},
     ops |-> <<Op("instance", "a", <<"clk">>, <<"bundle">>),
               Op("slice", "s", <<"bundle">>, <<"x">>),
               Op("instance", "b", <<"x">>, <<"y">>)>>,
     outputs |-> 1 :> "y"]

MCPackages == {Emit(t) : t \in {Chain, Crossed, Mute, Single, Through, Bundled}}
=============================================================================
