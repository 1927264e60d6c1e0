----------------------------- MODULE PathFilter -----------------------------
(***************************************************************************)
(* Path filtering of a monitor (c++/monitor.cpp).  A monitor keeps the      *)
(* compiled filters in the order they were added; a path is looked up with  *)
(* monitor::accept_path.  Regular expressions are abstracted to the         *)
(* relation Matches: the only thing the code asks of regexec is whether a   *)
(* filter matches a path.                                                   *)
(***************************************************************************)
EXTENDS Sequences, Naturals

CONSTANTS
  FilterPaths,     \* the paths a filter is evaluated on
  Filters,         \* the filters (monitor_filter values)
  IncludeFilters,  \* those of type filter_include; the others exclude
  Matches          \* pairs <<filter, path>> for which regexec succeeds

ASSUME FiltersAssumption ==
  /\ IncludeFilters \subseteq Filters
  /\ Matches \subseteq Filters \X FilterPaths

(* No filter of the chain matches the path. *)
Unmatched(chain, p) == \A i \in DOMAIN chain : <<chain[i], p>> \notin Matches

(* The i-th filter of the chain is the first one that matches the path. *)
FirstMatch(chain, p, i) ==
  /\ <<chain[i], p>> \in Matches
  /\ \A j \in DOMAIN chain : j < i => <<chain[j], p>> \notin Matches

(* monitor::accept_path: the first matching filter decides, and a path no   *)
(* filter matches is accepted.                                              *)
AcceptPath(chain, p) ==
  \/ Unmatched(chain, p)
  \/ \E i \in DOMAIN chain : FirstMatch(chain, p, i) /\ chain[i] \in IncludeFilters
=============================================================================
