-------------------------- MODULE MCTailnetGateway --------------------------
\* Instance of TailnetGateway, without symmetry: liveness is checked.
EXTENDS TailnetGateway
=============================================================================
