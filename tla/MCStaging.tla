------------------------------ MODULE MCStaging ------------------------------
EXTENDS Staging
Elf(d, n, needs, paths) == [dir |-> d, name |-> n, kind |-> "elf",
                            needs |-> needs, paths |-> paths]
Plain(d, n, k) == [dir |-> d, name |-> n, kind |-> k, needs |-> <<>>, paths |-> <<>>]
\* Programs that need a library of a library, glibc, a library reached only
\* through the path of the program, a sibling in pkglib, and one that is only
\* in a directory one of them looks in.
Files ==
    {Elf("bin", "pg_ctl", <<"libpq", "libc">>, <<>>),
     Elf("bin", "postgres", <<"libssl", "libicu", "libc">>, <<"opt">>),
     Elf("pkglib", "plperl", <<"sibling", "libpq", "nowhere">>, <<"pkglib">>),
     Elf("pkglib", "sibling", <<"libc">>, <<>>),
     Elf("pkglib", "llvmjit", <<"libLLVM">>, <<>>),
     Elf("usr", "libpq", <<"libssl", "libnss_files">>, <<>>),
     Elf("opt", "libicu", <<"libicudata", "libc">>, <<>>),
     Elf("opt", "libicudata", <<>>, <<>>),
     Elf("usr", "libssl", <<"libcrypto">>, <<>>),
     Elf("usr", "libcrypto", <<"libc">>, <<>>),
     Elf("usr", "libc", <<"ld-linux">>, <<>>),
     Elf("usr", "libnss_files", <<"libc">>, <<>>),
     Elf("usr", "libLLVM", <<>>, <<>>),
     Plain("bitcode", "postgres.bc", "plain"),
     Plain("nested", "pgxs.mk", "plain"),
     Plain("share", "gone", "dangling"),
     Plain("share", "catalog", "plain")}
\* An extension that names libicu has no path to it: if it is read first...
Unlucky == Files \cup {Elf("pkglib", "citext", <<"libicu">>, <<>>)}
AllImages == {[version |-> 17, files |-> Files],
              [version |-> 17, files |-> Unlucky],
              [version |-> 17, files |-> {f \in Files : f.dir # "bin"}],
              [version |-> 16, files |-> Files]}
AllOptions == {<<>>, <<"on">>, <<"off">>, <<"off", "on">>}
AllTargets == {[version |-> v, runs |-> r, has |-> h] :
                   v \in {17, 18}, r \in BOOLEAN,
                   h \in {{}, {"libc", "libnss_files"},
                         {"libc", "libnss_files", "libssl", "libcrypto"}}}
=============================================================================
