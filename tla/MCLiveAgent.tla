---------------------------- MODULE MCLiveAgent ----------------------------
(* A small instance: one service, one possible report of each kind, and    *)
(* room for every call the turns allow.                                    *)
EXTENDS LiveAgent

MCServices == {"api-gateway"}
MCSubmissions == {RcaFields}
MCFreeTextScores == {700}
============================================================================
