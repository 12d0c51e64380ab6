----------------------------- MODULE MCSimulator -----------------------------
(* A transit AS cosigns every path; a buyer also cosigns the second one.    *)
EXTENDS Simulator

CONSTANTS transit, buyer, first, second, bargain, foreign

MCAgentList == <<transit, buyer>>
MCTemplateList == <<first, second>>
MCCosigners ==
    [t \in {first, second, bargain, foreign} |->
        IF t = second THEN {transit, buyer} ELSE {transit}]
=============================================================================
