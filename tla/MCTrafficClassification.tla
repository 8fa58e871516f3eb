----------------------- MODULE MCTrafficClassification -----------------------
(***************************************************************************)
(* Instances of TrafficClassification, and with it of DeviceRegistry.      *)
(***************************************************************************)
EXTENDS TrafficClassification

CONSTANTS phone, laptop, rPhone, rLaptop, rNone, facebook, netflix

(* One spelling of each client's address, and one text that is none. *)
MCSpelled ==
  [t \in {rPhone, rLaptop, rNone} |->
    CASE t = rPhone -> phone [] t = rLaptop -> laptop [] OTHER -> NoClient]

(* Two providers that one destination may serve. *)
MCProviders ==
  << [category |-> "video_streaming", rules |-> <<[service |-> "Netflix", domains |-> {netflix}]>>],
     [category |-> "social_media", rules |-> <<[service |-> "Facebook", domains |-> {facebook}]>>] >>

Budget(l, s, q, f) == [lease |-> l, sighting |-> s, query |-> q, flow |-> f]

(* The registry on its own; three queries paged; an address handed over    *)
(* between a query and a flow; a bit of everything.                        *)
MCBudgets ==
  {Budget(2, 2, 0, 0), Budget(0, 0, 3, 0), Budget(0, 0, 2, 1), Budget(2, 0, 1, 1),
   Budget(0, 1, 1, 1)}
=============================================================================
