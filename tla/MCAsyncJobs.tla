------------------------------ MODULE MCAsyncJobs ------------------------------
(* A few clients, jobs and descriptors, which are interchangeable.           *)
EXTENDS AsyncJobs, TLC

Interchangeable == Permutations(Clients) \cup Permutations(Jobs)
                   \cup Permutations(Keys) \cup Permutations(LibCtxs)
================================================================================
