----------------------------- MODULE MCPosting ------------------------------
(* An instance of Posting for TLC. *)
EXTENDS Posting

\* Below, at, between and above the limits of the configuration; disposable and
\* url, which no other check looks at, vary for requests within the limits.
QueriesAroundLimits ==
    [ttl : {-1, 0, 1, 2, 4, 5, 6, Missing, Unparsable},
     len : {0, 1, 2, 3, 4, 5, Missing, Unparsable}, disposable : {Missing},
     key : {1, 2, 4, 5, Missing, Unparsable}, url : {"unset"},
     size : {1, 2, 3}, apikey : {"none", "unknown", "invalid", "valid"}]
    \cup
    [ttl : {0, 2}, len : {Missing}, disposable : {-1, 0, 3, 4, Missing, Unparsable},
     key : {4, Missing}, url : {"unset", "valid", "invalid", Unparsable},
     size : {1}, apikey : {"none", "valid"}]
=============================================================================
