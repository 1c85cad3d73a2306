-------------------------------- MODULE MCData --------------------------------
(***************************************************************************)
(* The three sequential parts of a call, each with its own variables and   *)
(* none with any effect on another: a behaviour exercises one of them, so  *)
(* that one run covers all and their states add up.                        *)
(***************************************************************************)
EXTENDS CallData, Deadline, XidRepList, TLC

VARIABLE topic

\* Values at the ends of the ranges that bytes of base 4 give, a string that
\* is longer than a new buffer, containers with and without elements.
ArgVals ==
  [bool |-> BOOLEAN, char |-> {-2}, uchar |-> {3}, short |-> {-8}, ushort |-> {14},
   int |-> {-1, 101}, uint |-> {254}, ull |-> {65283},
   string |-> {<<>>, <<3, 2>>, [i \in 1..29 |-> i % 4]},
   vector |-> {<<>>, <<<<2, 3, 1>>, <<>>>>, <<<<1, 0, 2, 3>>, <<0, 3, 1, 2>>>>},
   map |-> {(2 :> -7) @@ (-3 :> 90)}]

ArgHeaders == {[xid |-> 77, proc |-> 1, clt_nonce |-> 255, srv_nonce |-> 130, xid_rep |-> 66],
            [xid |-> 1, proc |-> 127, clt_nonce |-> 0, srv_nonce |-> 0, xid_rep |-> 0]}

OtherSigs == {<<"int">>, <<"string">>, <<"short", "short">>, <<"vector">>, <<"map">>, <<"uint", "bool">>}

HandlerRets == {3, -1}

\* Starts around the turn of a second, with and without whole milliseconds.
ClockStarts == [sec : {9}, nsec : {0, 1, 500000000, 999000000, 999999999}]
ClockTimeouts == {1, 500, 1500, 3000, 3001, 120000}
ClockDelays == {0, 400000, 999999999}

AllInit == topic = "none" /\ DataInit /\ Init /\ XidInit

AllNext ==
  \/ /\ topic \in {"none", "data"} /\ topic' = "data"
     /\ DataNext /\ UNCHANGED <<vars, xidVars>>
  \/ /\ topic \in {"none", "clock"} /\ topic' = "clock"
     /\ Next /\ UNCHANGED <<dataVars, xidVars>>
  \/ /\ topic \in {"none", "xid"} /\ topic' = "xid"
     /\ XidNext /\ UNCHANGED <<dataVars, vars>>

AllSpec == AllInit /\ [][AllNext]_<<topic, dataVars, vars, xidVars>>
===============================================================================
