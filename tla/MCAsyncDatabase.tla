--------------------------- MODULE MCAsyncDatabase ---------------------------
\* A small instance of AsyncDatabase: the world thread and one map worker.
EXTENDS AsyncDatabase, TLC

CONSTANTS MapWorker

\* The world thread issues two statements or queries, the map worker one.
MCMaxStmt == World :> 2 @@ MapWorker :> 1
==============================================================================
