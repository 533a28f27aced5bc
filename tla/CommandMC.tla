------------------------------ MODULE CommandMC ------------------------------
(***************************************************************************)
(* A small instance of a whole command: a host and its parent typed in     *)
(* different forms, three analyzers, three ports under two permits, and    *)
(* redirects that may lead to a blacklisted host.                          *)
(***************************************************************************)
EXTENDS Command

Small(t) == [text |-> t, upper |-> FALSE]
Capital(t) == [text |-> t, upper |-> TRUE]
Point == Small(".")

Site == <<Small("x")>>
Sub == <<Small("w"), Point>> \o Site

\* W.x. and x
MCTyped == <<<<Capital("w"), Point>> \o Site \o <<Point>>, Site>>

MCAvailable == {"dns_recon", "headers", "ports"}
MCLegalClassOf == [dns_recon |-> "passive", headers |-> "passive", ports |-> "active"]

Options(enable, disable, self_owned, dns, well_known) ==
  [enable |-> enable, disable |-> disable, self_owned |-> self_owned, dns |-> dns,
   well_known |-> well_known, allow_intrusive |-> FALSE]

\* One command line for every kind of proof, one that names two, one that names
\* none, and one for an analyzer nobody registered.
MCCommandLines ==
  {Options({"ports", "dns_recon"}, {"ports"}, FALSE, TRUE, FALSE),
   Options({}, {"ports"}, FALSE, FALSE, TRUE),
   Options({"ports"}, {}, TRUE, TRUE, FALSE),
   Options({"ports", "headers"}, {}, FALSE, FALSE, FALSE),
   Options({"nmap"}, {}, FALSE, TRUE, FALSE)}

\* Nothing there; the two tokens in one record; in two; with another key.
MCTxtAnswers ==
  {[found |-> FALSE, records |-> {}],
   [found |-> TRUE, records |-> {{"v=wimsalabim1", "key"}}],
   [found |-> TRUE, records |-> {{"v=wimsalabim1", "other"}, {"v=spf1", "key"}}]}

MCSiteAnswers ==
  {[found |-> FALSE, status |-> 0, body |-> {}],
   [found |-> TRUE, status |-> 200, body |-> {"v=wimsalabim1", "key", "target=elsewhere"}],
   [found |-> TRUE, status |-> 404, body |-> {"v=wimsalabim1", "key"}],
   [found |-> TRUE, status |-> 200, body |-> {"v=wimsalabim1", "other"}]}

\* Both declared; the subdomain commented out.
MCManifests ==
  {[exists |-> TRUE, lines |-> {Site, Sub}],
   [exists |-> TRUE, lines |-> {Site, <<Small("#")>> \o Sub}]}

MCPorts == <<22, 443, 6379>>

\* t.n is blacklisted: s.T.n. is below it, st.n is not.
MCHosts == {<<Small("s"), Point, Capital("t"), Point, Small("n"), Point>>,
            <<Small("s"), Small("t"), Point, Small("n")>>}
MCBlacklist == {<<"t", ".", "n">>}
=============================================================================
