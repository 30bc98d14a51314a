--------------------------- MODULE MCProposalCards ---------------------------
(* Instance of ProposalCards for TLC; the constants are in the cfg file. *)
EXTENDS ProposalCards
=============================================================================
