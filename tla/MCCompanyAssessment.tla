------------------------- MODULE MCCompanyAssessment -------------------------
(***************************************************************************)
(* Small websites: home page 1, pages 2, 4 and 6 on its host, page 3 on    *)
(* another host of the domain, page 5 with a query, the rest of its URL    *)
(* being that of page 4.  One family varies what is known of the pages and *)
(* which are fetched, the other what they say.                             *)
(***************************************************************************)
EXTENDS CompanyAssessment

CONSTANTS acme, other, odd, shop, plain, here, there, town, craft, h, sub, out

MCHost == [u \in 0..6 |-> CASE u = 0 -> out [] u = 3 -> sub [] OTHER -> h]
MCDepth == [u \in 0..6 \cup {odd} |-> IF u = 1 THEN 0 ELSE 1]
MCRankedAs == [p \in 1..6 |-> IF p = 5 THEN 4 ELSE p]

Text(types, terms, length) == [types |-> types, terms |-> terms, length |-> length]
Link(types, terms, length) ==
    [Bare(NoText) EXCEPT !.anchor = Text(types, terms, length)]
Path(type) == Bare(Text({type}, {}, 1))

Simple == <<Bare(NoText)>>
Evidence ==
    {<<>>, <<Path("about")>>, <<Path("contact"), Link({"about", "contact"}, {}, 5)>>,
     <<Link({}, {}, 3)>>, <<Link({"services"}, {}, 3), Link({}, {shop}, 8)>>,
     <<Link({"services"}, {}, 3)>>}

S(name, source, page, value) ==
    [name |-> name, source |-> source, page |-> page, value |-> value]

Plain == {S("company_name", "title", 1, {acme}), S("website_url", "canonical", 1, {1})}

\* What is fetched on the home page's host is known.
Mapped(w) ==
    \A p \in ToSet(w.crawled) : MCHost[p] = h => Len(w.known[MCRankedAs[p]]) > 0

Selections ==
    {w \in {[known |-> <<Simple, a, <<>>, b, <<>>, c>>, crawled |-> crawled,
             signals |-> Plain] :
                a \in Evidence, b \in Evidence, c \in Evidence,
                crawled \in {<<>>, <<1, 2, 4, 6>>, <<1, 3, 5, 2>>, <<5, 3>>}} :
        Mapped(w)}

Names ==
    {{}, {S("company_name", "json_ld", 1, {acme}), S("company_name", "title", 2, {other})},
     {S("company_name", "json_ld", 1, {acme}), S("company_name", "json_ld", 2, {other})},
     {S("company_name", "requested", 1, {odd})}}
Sites ==
    {{}, {S("website_url", "canonical", 1, {1}), S("website_url", "canonical", 2, {2})},
     {S("website_url", "json_ld", 1, {1}), S("website_url", "og_url", 2, {3})},
     {S("website_url", "requested", 1, {odd})}}
Facts ==
    {{}, {S("country", "text", 1, {here}), S("services", "section", 2, {plain})},
     {S("country", "json_ld", 2, {there}), S("country", "text", 1, {here}),
      S("services", "json_ld", 1, {shop}), S("services", "section", 2, {plain}),
      S("services", "section", 4, {craft}), S("headquarters", "requested", 2, {town})}}
Contacts ==
    {{}, {S("contact_page_url", "link", 1, {2}), S("contact_page_url", "link", 2, {0})},
     {S("contact_page_url", "link", 1, {2}), S("contact_page_url", "requested", 2, {3})},
     {S("contact_page_url", "link", 4, {2}), S("contact_page_url", "requested", 1, {odd})}}

Contents ==
    {[known |-> <<Simple, <<Path("about")>>, <<>>, <<Path("contact")>>, <<>>, <<>>>>,
      crawled |-> <<1, 2, 4>>, signals |-> n \cup w \cup f \cup c] :
        n \in Names, w \in Sites, f \in Facts, c \in Contacts}

MCWebsites == Selections \cup Contents
MCRequests ==
    {<<"company_name", "summary">>, <<"headquarters", "offerings">>, <<"ceo">>,
     <<"website_url", "contact_page_url">>}

A(name, value, cites, basis, weak, grounded) ==
    [name |-> name, value |-> value, cites |-> cites, basis |-> basis, weak |-> weak,
     grounded |-> grounded, tainted |-> FALSE]

AnswerFields ==
    {A("company_name", {other}, {1}, "explicit", FALSE, TRUE),
     A("company_name", {odd}, {1}, "explicit", FALSE, TRUE),
     A("country", {here}, {1}, "explicit", TRUE, TRUE),
     A("country", {here}, {1}, "inference", FALSE, TRUE),
     A("services", {shop}, {0}, "explicit", FALSE, TRUE),
     A("offerings", {shop}, {1}, "inference", TRUE, TRUE),
     A("offerings", {shop}, {1}, "inference", FALSE, FALSE),
     A("headquarters", {here}, {1}, "inference", TRUE, TRUE),
     A("headquarters", {town}, {1, 2}, "explicit", FALSE, FALSE),
     A("website_url", {1}, {1}, "explicit", FALSE, TRUE),
     A("website_url", {0}, {1}, "explicit", FALSE, TRUE),
     [A("contact_page_url", {2}, {1}, "explicit", FALSE, TRUE) EXCEPT !.tainted = TRUE],
     A("summary", {acme, shop}, {1}, "inference", FALSE, TRUE)}

MCAnswers ==
    {answer \in UNION {{{}}, {{f, g} : f \in AnswerFields, g \in AnswerFields}} :
        \A f, g \in answer : f.name = g.name => f = g}
=============================================================================
