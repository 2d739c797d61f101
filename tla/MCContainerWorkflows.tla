------------------------ MODULE MCContainerWorkflows ------------------------
EXTENDS ContainerWorkflows

\* The first version may be built twice.
MCBuilds == [v \in Versions |-> IF v = 1 THEN 2 ELSE 1]

\* Both versions are stable, or the second is a prerelease of a later one.
OneOrNone == {{}, {2}}

-----------------------------------------------------------------------------
\* The finding that was reviewed, those that differ from it in one respect, and
\* two of another rule.
Known == [rule |-> "r1", severity |-> "High", package |-> "deb 1", state |-> "wont-fix",
          fixable |-> FALSE, arch |-> TRUE]

Findings ==
  {Known,
   [Known EXCEPT !.severity = "Critical"], [Known EXCEPT !.severity = "Low"],
   [Known EXCEPT !.package = "deb 2"], [Known EXCEPT !.package = "wheel"],
   [Known EXCEPT !.state = "fixed"], [Known EXCEPT !.fixable = TRUE],
   [Known EXCEPT !.arch = FALSE],
   [Known EXCEPT !.rule = "r2"], [Known EXCEPT !.rule = "r2", !.severity = "Low"]}

SmallReports ==
  [platform : {"linux/amd64", "linux/arm64"}, base : {"base 1"},
   matches : {{f, g} : f, g \in Findings} \union {{}}]
  \union [platform : {"linux/amd64"}, base : {"base 2"}, matches : {{Known}}]

Entry == [rule |-> "r1", severity |-> "High", package |-> "deb 1", state |-> "wont-fix",
          platforms |-> {"linux/amd64", "linux/arm64"}, reviewed |-> 1, expires |-> 2,
          documented |-> TRUE]

SmallBaselines ==
  LET with(entries, last) == [base |-> "base 1", reviewed |-> 1, expires |-> last, entries |-> entries] IN
    {with({}, 3), with({Entry}, 2), with({Entry}, 3),
     with({Entry, [Entry EXCEPT !.rule = "r2"]}, 2),
     with({Entry, [Entry EXCEPT !.severity = "Critical"]}, 2),
     with({[Entry EXCEPT !.platforms = {"linux/arm64"}]}, 2),
     with({[Entry EXCEPT !.package = "wheel"]}, 2),
     with({Entry, [Entry EXCEPT !.rule = "r2", !.reviewed = 2]}, 2),
     with({Entry, [Entry EXCEPT !.rule = "r2", !.documented = FALSE]}, 2),
     with({[Entry EXCEPT !.state = "fixed"]}, 2),
     with({[Entry EXCEPT !.expires = 3]}, 2)}

DebianPackages == {"deb 1", "deb 2"}
=============================================================================
