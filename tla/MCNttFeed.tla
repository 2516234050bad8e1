------------------------------- MODULE MCNttFeed -------------------------------
EXTENDS NttFeed

MCWords == 0 .. Total

================================================================================
