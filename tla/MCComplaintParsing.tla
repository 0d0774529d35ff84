------------------------ MODULE MCComplaintParsing ------------------------
EXTENDS ComplaintParsing
CONSTANTS NoValue, asha, ravi, unknownMan, unknownPerson, somebody, notStated, day, hour,
          dayAndHour, theft, park, gist, motive, money, invented

\* Letters of the scripts: English, Hindi, Telugu.
Letters(en, hi, te) == [en |-> en, hi |-> hi, ur |-> 0, te |-> te, ml |-> 0]
Document(counts, paragraphs) == [counts |-> counts, paragraphs |-> paragraphs]

Unit(kind, says) == [kind |-> kind, says |-> says, header |-> FALSE]
Word(says) == Unit("word", says)
Letterhead(says) == [Word(says) EXCEPT !.header = TRUE]
Plainly(kind) == Unit(kind, {})

\* A paragraph too long for any provider, with a sentence in a script the splitting does
\* not know, between two short ones; two by two, with noise; one too long for all but
\* Google under a letterhead; English; nothing but noise; nothing.
MCDocuments ==
  {Document(Letters(0, 9, 0),
     << <<Word({asha, day})>>,
        <<Plainly("mark"), Word({theft}), Word({park}), Word({money}), Plainly("stop"),
          Unit("foreign", {ravi}), Plainly("call")>>,
        <<Word({ravi, hour})>> >>),
   Document(Letters(9, 6, 0),
     << <<Word({asha})>>, <<Plainly("noise"), Word({theft, somebody}), Plainly("fragment")>>,
        <<Word({day})>> >>),
   Document(Letters(5, 3, 3),
     << <<Letterhead({asha})>>,
        <<Word({theft}), Plainly("stop"), Word({ravi, park, day, hour}), Plainly("mark")>> >>),
   Document(Letters(9, 0, 0), << <<Word({theft, park})>>, <<Word({}), Word({somebody, hour})>> >>),
   Document(Letters(0, 0, 9), << <<[Letterhead({asha}) EXCEPT !.kind = "noise"]>> >>),
   Document(Letters(0, 0, 0), <<>>)}

\* The gist has half of its words from the place and the theft.
Words(words) == [words |-> words, dates |-> {}, role |-> {}]
MCLexicon ==
  asha :> Words({"asha"}) @@ ravi :> Words({"ravi"}) @@ day :> Words({"may"})
  @@ hour :> Words({"ten"}) @@ theft :> Words({"chain", "stolen"}) @@ park :> Words({"lake"})
  @@ money :> Words({"paid"}) @@ gist :> Words({"chain", "lake", "grabbed", "night"})
  @@ motive :> Words({"greed"}) @@ invented :> Words({"boat"}) @@ somebody :> Words({"unknown"})
  @@ dayAndHour :> [words |-> {"may", "ten"}, dates |-> {day, hour}, role |-> {}]
  @@ unknownMan :> [words |-> {"unknown", "paid"}, dates |-> {}, role |-> {"paid"}]
  @@ unknownPerson :> [words |-> {"unknown", "person"}, dates |-> {}, role |-> {"person"}]
MCStandard == somebody :> unknownPerson
MCMotives == {[values |-> {motive}, grounds |-> {theft}]}

Config(provider, fallback, usable, qe, refiner, llm, strict) ==
  [enabled |-> TRUE, provider |-> provider, fallback |-> fallback, project |-> "google" \in usable,
   usable |-> usable, qe |-> qe, threshold |-> 70, refiner |-> refiner, llm |-> llm,
   minScore |-> IF strict THEN 68 ELSE 45, requireEvidence |-> strict]
MCConfigs ==
  {Config("openai", "gemini", {"openai", "gemini"}, TRUE, "openai", TRUE, TRUE),
   Config("auto", "openai", {"google", "openai"}, TRUE, "none", FALSE, FALSE),
   Config("auto", "gemini", {"google", "gemini"}, FALSE, "gemini", TRUE, FALSE),
   Config("auto", "none", {"openai", "gemini"}, TRUE, "openai", TRUE, TRUE),
   Config("gemini", "none", {"openai"}, TRUE, "openai", TRUE, TRUE),
   Config("google", "openai", {"gemini"}, FALSE, "gemini", FALSE, TRUE),
   Config("none", "none", {"openai"}, FALSE, "openai", TRUE, TRUE),
   [Config("openai", "none", {"openai"}, FALSE, "none", FALSE, TRUE) EXCEPT !.enabled = FALSE]}

\* What the rules come across: names, somebody unknown and a time; a complaint in the
\* first person with a labelled date and a weak event; a date in the header; nothing.
Nothing ==
  [names |-> [r \in ToSet(Roles) |-> {}], firstPerson |-> FALSE, strong |-> FALSE,
   signed |-> FALSE, inBus |-> FALSE, header |-> {}, unknowns |-> {},
   subject |-> {}, whatLabel |-> {}, event |-> {}, whenLabel |-> {}, date |-> {}, time |-> {},
   places |-> {}, whyLabel |-> {}, reason |-> {}, howLabel |-> {}, method |-> {}]
MCReadings ==
  {[Nothing EXCEPT !.names["who.complainant"] = {asha}, !.unknowns = {somebody},
                   !.time = {hour}, !.subject = {theft}, !.inBus = TRUE],
   [Nothing EXCEPT !.names["who.complainant"] = {asha}, !.firstPerson = TRUE,
                   !.whenLabel = {day}, !.event = {theft},
                   !.places = {[at |-> park, score |-> 37, above |-> TRUE]}, !.method = {park}],
   [Nothing EXCEPT !.header = {day}, !.time = {hour}, !.names["who.witnesses"] = {ravi},
                   !.signed = TRUE, !.whatLabel = {theft}, !.reason = {theft}],
   Nothing}

\* What the model answers: a correct name and an invented one, a paraphrase and a motive;
\* invented things, somebody unknown, a date put together; nothing at all.
Answer(value, confidence, evidence) ==
  [value |-> value, confidence |-> confidence, evidence |-> evidence]
Who(complainant, accused, confidence, evidence) ==
  ("who.complainant" :> complainant @@ "who.victim" :> {} @@ "who.accused" :> accused
   @@ "who.witnesses" :> {} @@ [confidence |-> confidence, evidence |-> evidence])
When(value, date, time, confidence, evidence) ==
  Answer(value, confidence, evidence) @@ [date |-> date, time |-> time]
Reply(who, what, when, where, why, questions, summary) ==
  [answers |-> [f \in Fields |-> CASE f = "who" -> who [] f = "what" -> what
                                   [] f = "when" -> when [] f = "where" -> where
                                   [] f = "why" -> why [] OTHER -> None],
   questions |-> questions, summary |-> summary]
MCReplies ==
  {Reply(Who({}, {ravi}, "high", {ravi, invented}), Answer({gist}, "medium", {theft}),
         When({day}, {day}, {}, "high", {day}), Answer({notStated}, "high", {park}),
         Answer({motive}, "high", {theft}), <<"where">>, {invented}),
   Reply(Who({invented}, {unknownMan, ravi}, "medium", {ravi}), Answer({invented}, "high", {theft}),
         When({dayAndHour}, {invented}, {hour}, "medium", {hour}), Answer({park}, "low", {}),
         None, <<"what", "what">>, {}),
   Reply(None, Answer({invented}, "low", {invented}), When({hour}, {}, {}, "high", {hour}),
         None, Answer({gist}, "high", {theft}), <<>>, {})}

Section(section, fit, score, evidence) ==
  [section |-> section, fit |-> fit, score |-> score, evidence |-> evidence]
MCSpeakers == {asha}
MCSuggestions ==
  {<<>>,
   <<Section("s1", "related", 90, <<theft>>), Section("s2", "primary", 70, <<theft, park>>),
     Section("s1", "primary", 95, <<theft, hour, day, park>>)>>}
=============================================================================
