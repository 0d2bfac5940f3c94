---------------------- MODULE MCTournamentPredictor ----------------------
EXTENDS TournamentPredictor
==========================================================================
