-------------------------- MODULE MCEventReadModel --------------------------
(* Instances of EventReadModel for TLC.                                    *)
EXTENDS EventReadModel, TLC

CONSTANTS o1, o2, e1, e2, e3, w1, w2

(* Apple: o1 is a series with two instances whose IDs are not the object's; *)
(* o2 is a single event whose ID is its object's.                          *)
SeriesOf == (e1 :> o1) @@ (e2 :> o1) @@ (e3 :> o2)
SeriesSelf == (e1 :> None) @@ (e2 :> None) @@ (e3 :> o2)

(* Google and Microsoft: every event is its own object. *)
SingleOf == (e1 :> o1) @@ (e3 :> o2)

OneEventOf == e1 :> o1

(* One series and nothing else. *)
OneSeriesOf == (e1 :> o1) @@ (e2 :> o1)
OneSeriesSelf == (e1 :> None) @@ (e2 :> None)

(* Workers are interchangeable; so are the two single events, when both     *)
(* objects are swapped together with their events.                         *)
SwapEvents == (o1 :> o2) @@ (o2 :> o1) @@ (e1 :> e3) @@ (e3 :> e1)
FeedSymmetry == Permutations({w1, w2}) \cup {SwapEvents}
SeriesSymmetry == Permutations({w1, w2}) \cup Permutations({e1, e2})
=============================================================================
