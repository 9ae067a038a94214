-------------------------- MODULE MCStage5Study --------------------------
(* Two paired blocks of two arms, enough for a block to be half executed    *)
(* twice over and for another block to keep the totals honest.              *)
EXTENDS Stage5Study
CONSTANTS one, two
MCArms == <<one, two>>
=============================================================================
