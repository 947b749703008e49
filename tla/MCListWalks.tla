---------------------------- MODULE MCListWalks -----------------------------
(* Up to four rows in pages of one and two, and every service. *)
EXTENDS ListWalks

\* walk (two page sizes, a cap, none, and one above the ceiling), sessions
\* list (a start, a page cap that ends it as partial) and supplychain (a
\* shrunk last page).
MCPageWalks ==
    [kind : {"skip"}, start : {0}, limit : {1, 2}, max : {0, 2, 3, 9}, pages : {5},
     partial : {FALSE}, shrink : {FALSE}, keyed : BOOLEAN]
    \cup [kind : {"skip"}, start : {1}, limit : {2}, max : {0}, pages : {2},
          partial : {TRUE}, shrink : {FALSE}, keyed : {FALSE}]
    \cup [kind : {"skip"}, start : {0, 1}, limit : {2}, max : {0, 3}, pages : {3},
          partial : {FALSE}, shrink : {TRUE}, keyed : {TRUE}]

MCPageServices == [count : {"exact", "none", "capped"}, size : {1, 2}, heeds : BOOLEAN]

\* dlp list, and the sweep of dlp backup with --max-pages.
MCNumberedWalks ==
    [kind : {"number"}, start : {0}, limit : {2}, max : {0, 3}, pages : {5},
     partial : {FALSE}, shrink : {FALSE}, keyed : BOOLEAN]
    \cup [kind : {"sweep"}, start : {0}, limit : {2}, max : {0}, pages : {2, 5},
          partial : {FALSE}, shrink : {FALSE}, keyed : {TRUE}]

MCNumberedServices ==
    [size : {1, 2}, tells : SUBSET {"size", "pages", "elements", "number"},
     last : {"told", "never", "none"}, heeds : BOOLEAN]

\* profiles backup: the inventory of profiles and that of topics.
MCOffsetWalks ==
    [kind : {"offset"}, start : {0}, limit : {2}, max : {0}, pages : {2, 5},
     partial : {FALSE}, shrink : {FALSE}, keyed : BOOLEAN]

MCOffsetServices == [size : {1, 2}, next : {"more", "always"}, heeds : BOOLEAN]

MCLists == {<<>>, <<1>>, <<1, 2>>, <<1, 2, 3>>, <<1, 2, 3, 4>>}

=============================================================================
