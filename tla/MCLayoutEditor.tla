--------------------------- MODULE MCLayoutEditor ---------------------------
(* A factory with one station of each type, two routes and one zone of     *)
(* each kind.                                                              *)
EXTENDS LayoutEditor

Buffer == {"buffer"}
Marriage == {"marriage"}
Charging == {"charger"}

TypedIds == {NoId, <<"no_go_zones", 1>>, <<"congestion_zones", 1>>}

Content0 ==
    [width |-> 3,
     at |-> [s \in Stations |-> IF s = "buffer" THEN 1 ELSE 2],
     routes |-> <<[id |-> <<"DELIVERY", 0>>, from |-> "buffer", to |-> "marriage", path |-> <<1, 2>>],
                  [id |-> <<"SUPPORT", 1>>, from |-> "charger", to |-> "buffer", path |-> <<2, 1>>]>>,
     zones |-> [kind \in ZoneKinds |->
         IF kind = "no_go_zones" THEN <<[id |-> <<"no_go_zones", 1>>, points |-> <<1>>, delay |-> 0]>>
         ELSE <<[id |-> <<"congestion_zones", 1>>, points |-> <<2>>, delay |-> 1]>>],
     config |-> 1]

Has(edits, drawings, requests, failures) ==
    [edits |-> edits, drawings |-> drawings, requests |-> requests, failures |-> failures]
SomeBudgets ==
    {Has(2, 0, 0, 0), Has(1, 1, 0, 0), Has(1, 0, 1, 1), Has(0, 2, 0, 0), Has(0, 1, 1, 1), Has(0, 0, 2, 1)}
=============================================================================
