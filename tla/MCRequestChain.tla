--------------------------- MODULE MCRequestChain ---------------------------
(* Every kind of request: a body below, at and above a limit of two, with   *)
(* its length declared or not.  Only GET and POST are routed, so a          *)
(* preflight finds no route or no method.                                   *)
EXTENDS RequestChain

MCInputs == {q \in [route : {"get", "api", "unknown", "wrong_method", "redirected"},
                    polled : BOOLEAN,
                    inbound : {NoId, "caller"},
                    origin : {"same", "listed", "other"},
                    preflight : BOOLEAN,
                    body : 1..3,
                    declared : BOOLEAN] :
               /\ q.polled => q.route \in {"get", "wrong_method"}
               /\ q.preflight => q.route \in {"unknown", "wrong_method"}}
=============================================================================
