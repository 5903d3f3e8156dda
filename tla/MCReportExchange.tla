------------------------- MODULE MCReportExchange -------------------------
(* ReportExchange with frames of one packet and of two. *)
EXTENDS ReportExchange

MCSize  == {1, 2}
MCFrame == {1, 2}
=============================================================================
