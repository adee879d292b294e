------------------------------- MODULE Parsers -------------------------------
(***************************************************************************)
(* What the parsers of mkdatabase's sources keep of a list (sources.go).   *)
(*                                                                         *)
(* A text is a set of lines, each cut into the tokens its format separates *)
(* (white space, commas or colons).  A JSON document is its entries, with  *)
(* the fields a parser looks at.  A token spells a network in CIDR         *)
(* notation, or a single address, or it is a word that is neither.  Which  *)
(* networks a list has, and not how often or in which order, is all the    *)
(* program goes by; a document that does not decode as JSON is left out.   *)
(***************************************************************************)
EXTENDS Records

CONSTANTS
  Hosts,             \* the networks of one address
  Global             \* the region of an entry that names none

ASSUME ParsersAssumption == Hosts \subseteq Prefix

CIDR(p) == <<"cidr", p>>
Bare(p) == <<"bare", p>>
Word(w) == <<"word", w>>
Hash == Word("#")

\* netip.ParsePrefix, netip.ParseAddr and parsePrefixField: the network a
\* token spells, or none.
ParsePrefix(token) == IF token[1] = "cidr" THEN {token[2]} ELSE {}
ParseAddr(token) == IF token[1] = "bare" THEN {token[2]} ELSE {}
ParsePrefixField(token) == ParsePrefix(token) \cup ParseAddr(token)

-----------------------------------------------------------------------------
(* Texts *)

Uncommented(lines) == {l \in lines : l # << >> => l[1] # Hash}
Field(lines, n) == UNION {ParsePrefixField(l[n]) : l \in {k \in lines : n \in DOMAIN k}}

\* The whole line, up to a comment, has to be one token.
ParseIPLines(lines) == Field({l \in lines : Len(l) > 1 => l[2] = Hash}, 1)
ParseCSVFirstField(lines) == Field(Uncommented(lines), 1)
ParseCSVSecondField(lines) == Field(Uncommented(lines), 2)
ParseColonHost(lines) == Field(Uncommented(lines), 1)
ParseRBLDNSD(lines) == Field(Uncommented(lines), 1)
ParseTorExitAddresses(lines) == Field({l \in lines : l # << >> /\ l[1] = Word("ExitAddress")}, 2)

\* A URL's tokens are its scheme, host and port.
ParseProxyURLs(lines) == UNION {ParseAddr(l[2]) : l \in {k \in Uncommented(lines) : Len(k) > 1}}

-----------------------------------------------------------------------------
(* JSON documents *)

ParseGoogleStyleJSON(entries) ==
  UNION {ParsePrefix(IF e.ipv4Prefix = Word("") THEN e.ipv6Prefix ELSE e.ipv4Prefix) : e \in entries}
ParseAWSJSON(doc) == UNION {ParsePrefix(c) : c \in doc.prefixes \cup doc.ipv6_prefixes}

\* parseOracleJSON and parseAzureJSON: a list for each region, for each service.
ParseNestedJSON(lists) == UNION {ParsePrefixField(c) : c \in UNION lists}

\* parseGitHubMetaKey with the key the sources use.
ParseGitHubMeta(doc) == UNION {ParsePrefixField(c) : c \in doc.copilot}

\* Entries of the other three schemas are an ip_address and its tag: a
\* service, a region, or something the parser ignores.
ParseIPAddressJSON(entries) == UNION {ParsePrefixField(e[1]) : e \in entries}
ParseGitHubActions(entries) == ParseIPAddressJSON({e \in entries : e[2] = "actions"})

\* regionGroupedParser: a region is a sequence of one element, or it is missing.
Region(e) == IF e[2] = << >> THEN Global ELSE e[2][1]
RegionGroup(entries, region) == ParseIPAddressJSON({e \in entries : Region(e) = region})

-----------------------------------------------------------------------------
(* The documents that sources publish, as the parsers' comments describe    *)
(* them: with what is to be read, and with networks that are not.           *)

LineFormats == {"parseIPLines", "parseCSVFirstField", "parseCSVSecondField", "parseColonHost",
                "parseRBLDNSD", "parseTorExitAddresses", "parseProxyURLs"}
JSONFormats == {"parseGoogleStyleJSON", "parseAWSJSON", "parseOracleJSON", "parseAzureJSON",
                "parseGitHubActions", "parseGitHubMetaKey", "parseIPAddressJSON"}
Formats == LineFormats \cup JSONFormats

\* A network that collapses is IPv6; the others are taken for IPv4.
IPv6(networks) == {p \in networks : Collapse[p] # p}

\* Proxies have an address and a port: theirs are lists of single addresses,
\* and only URLs may name an IPv6 one.
Writable(format) ==
  CASE format = "parseProxyURLs" -> Hosts
    [] format = "parseColonHost" -> Hosts \ IPv6(Hosts)
    [] OTHER -> Prefix

\* Single addresses are written as such, where that can be read.
CIDRs(networks) == {CIDR(p) : p \in networks}
Spelled(networks) == CIDRs(networks \ Hosts) \cup {Bare(p) : p \in networks \cap Hosts}
Junk == Word("junk")

\* The lines a token is listed on, and lines that list nothing.
Line(format, t) ==
  CASE format = "parseIPLines" -> {<<t>>, <<t, Hash, Junk>>}
    [] format \in {"parseCSVFirstField", "parseRBLDNSD"} -> {<<t, Junk>>}
    [] format = "parseColonHost" -> {<<t, Junk>>, <<t, Junk, Junk>>}
    [] format = "parseCSVSecondField" -> {<<Junk, t, Junk>>}
    [] format = "parseTorExitAddresses" -> {<<Word("ExitAddress"), t, Junk>>}
    [] format = "parseProxyURLs" -> {<<Junk, t, Junk>>, <<Junk, t, Junk, Hash, Junk>>}
Blank(format) ==
  {<< >>, <<Junk>>} \cup {<<Hash, t>> : t \in Spelled(Prefix)}
    \cup (IF format \in {"parseIPLines", "parseCSVSecondField", "parseProxyURLs"}
          THEN {<<t, Junk>> : t \in Spelled(Prefix)}
          ELSE {<<Junk, t>> : t \in Spelled(Prefix)})
Text(format, networks) == Blank(format) \cup UNION {Line(format, t) : t \in Spelled(networks)}

JSON(format, networks) ==
  LET six == CIDRs(IPv6(networks))
      four == CIDRs(networks \ IPv6(networks))
      tokens == Spelled(networks) \cup {Junk}
  IN CASE format = "parseGoogleStyleJSON" ->
            {[ipv4Prefix |-> c, ipv6Prefix |-> Word("")] : c \in four \cup {Word("")}}
              \cup {[ipv4Prefix |-> Word(""), ipv6Prefix |-> c] : c \in six}
       [] format = "parseAWSJSON" -> [prefixes |-> four \cup {Junk}, ipv6_prefixes |-> six]
       [] format \in {"parseOracleJSON", "parseAzureJSON"} -> {{t} : t \in tokens} \cup {{}}
       [] format = "parseGitHubActions" ->
            {<<t, "actions">> : t \in tokens} \cup {<<t, "web">> : t \in Spelled(Prefix)}
       [] format = "parseGitHubMetaKey" -> [copilot |-> tokens, web |-> Spelled(Prefix)]
       [] format = "parseIPAddressJSON" -> {<<t, "IPv4">> : t \in tokens}

Document(format, networks) ==
  IF format \in LineFormats THEN Text(format, networks) ELSE JSON(format, networks)

\* Entries in regions: those of the region called global do not name it.
RegionsDocument(groups) ==
  UNION {{<<t, IF v = Global THEN << >> ELSE <<v>>>> : t \in Spelled(groups[v]) \cup {Junk}} :
           v \in DOMAIN groups}

\* The parser that a list's entry in the tables of sources names.
Parse(format, doc) ==
  CASE format = "parseIPLines" -> ParseIPLines(doc)
    [] format = "parseCSVFirstField" -> ParseCSVFirstField(doc)
    [] format = "parseCSVSecondField" -> ParseCSVSecondField(doc)
    [] format = "parseColonHost" -> ParseColonHost(doc)
    [] format = "parseRBLDNSD" -> ParseRBLDNSD(doc)
    [] format = "parseTorExitAddresses" -> ParseTorExitAddresses(doc)
    [] format = "parseProxyURLs" -> ParseProxyURLs(doc)
    [] format = "parseGoogleStyleJSON" -> ParseGoogleStyleJSON(doc)
    [] format = "parseAWSJSON" -> ParseAWSJSON(doc)
    [] format \in {"parseOracleJSON", "parseAzureJSON"} -> ParseNestedJSON(doc)
    [] format = "parseGitHubActions" -> ParseGitHubActions(doc)
    [] format = "parseGitHubMetaKey" -> ParseGitHubMeta(doc)
    [] format = "parseIPAddressJSON" -> ParseIPAddressJSON(doc)

Read(format, networks) == Parse(format, Document(format, networks))
=============================================================================
