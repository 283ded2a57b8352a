--------------------------- MODULE MCRequestGate ---------------------------
(***************************************************************************)
(* RequestGate with a site, its sibling on the same domain, and the ways   *)
(* an address can differ from the one that is configured.                  *)
(***************************************************************************)
EXTENDS RequestGate

CONSTANTS site, sibling, alice

MCHosts == {site, sibling}
MCUsers == {alice}

Page(scheme, host, port, tail) ==
    [scheme |-> scheme, host |-> host, port |-> port, odd |-> FALSE,
     tail |-> tail]

Home == Page("https", site, None, FALSE)
Home443 == Page("https", site, 443, FALSE)
HomeAt443 == Page("http", site, 443, FALSE)
HomePost == Page("https", site, None, TRUE)
Plain == Page("http", site, None, FALSE)
Sibling == Page("https", sibling, None, TRUE)
Userinfo == [Home EXCEPT !.odd = TRUE]

MCUrls == {Home, Home443, HomeAt443, HomePost, Plain, Sibling,
           Userinfo}

\* Unset, alone or beside an address (which does not start); a list of its
\* own, also one that does not start; an empty one.
MCConfigs ==
    {[set |-> FALSE, csrf |-> {}, cors |-> {Home443, HomePost}],
     [set |-> FALSE, csrf |-> {}, cors |-> {Star}],
     [set |-> FALSE, csrf |-> {}, cors |-> {Star, Home}],
     [set |-> TRUE, csrf |-> {Home443, Plain}, cors |-> {Home, Sibling}],
     [set |-> TRUE, csrf |-> {Home, Userinfo}, cors |-> {Home}],
     [set |-> TRUE, csrf |-> {}, cors |-> {Home}]}
=============================================================================
