------------------------------ MODULE Process ------------------------------
(***************************************************************************)
(* A guest from the command line to its system calls: the loader, the      *)
(* segments and the wrappers put together, over one memory.                *)
(*                                                                         *)
(* The guest first fills the structure it passes, if any, and executes INT *)
(* 80h; both are one step.  The structures lie at Scratch, which no segment*)
(* of a file and no stack reaches.  What the host does to guest memory     *)
(* through the pointers of a request is left out, except for poll, whose   *)
(* wrapper copies it.                                                      *)
(***************************************************************************)
EXTENDS Loader, Segments, HostCalls

CONSTANTS Scratch, ScratchSize,
          Registers,     \* ebx, ecx, edx, esi, edi, ebp at a system call
          HostResults,   \* what the host returns
          Sentinel,      \* 0xdeadbeef, the result of exit
          CreatBit,      \* O_CREAT
          AreaEntries,   \* the entry_number, base_addr and limit guests ask for
          AreaBases,
          AreaLimits,
          Iovecs,        \* the arrays guests pass to writev: <<base, length>>
          Answers,       \* what poll answers: a sequence of revents
          Handlers,      \* sa_handler and sa_restorer
          MaxAreas       \* bound: segment operations per guest

\* What guests pass are words and arrays that fit in memory.
ASSUME ProcessAssumption ==
  /\ Scratch \in Addr /\ MaxAreas \in Nat
  /\ AreaEntries \subseteq Requested /\ AreaBases \cup AreaLimits \subseteq Addr
  /\ Iovecs \subseteq Seq(Addr \X Addr) /\ Answers \subseteq Seq(Addr)
  /\ ScratchSize \in Nat /\ 12 <= ScratchSize /\ Scratch + ScratchSize <= N
  /\ \A v \in Iovecs : 8 * Len(v) <= ScratchSize
  /\ \A v \in Answers : 8 * Len(v) <= ScratchSize

\* The image, the structures of the guest and the stack lie one above the
\* other: nothing in the code keeps them apart.
ASSUME LayoutAssumption ==
  \A f \in Files, c \in CommandLines :
    f.kind = "ELF32" /\ c.mode \in ElfModes =>
      /\ \A i \in DOMAIN f.phdrs :
           f.phdrs[i].type = "LOAD" => f.phdrs[i].vaddr + f.phdrs[i].memsz <= Scratch
      /\ \A x \in Auxvs : Scratch + ScratchSize + StackSize(c.args, c.env, x) <= STACK_BOTTOM

VARIABLES eax,
          host,          \* the last request made to the host
          areas          \* the number of segment operations so far

processVars == <<loaderVars, segVars, eax, host, areas>>

NoRequest == [by |-> "none"]
ENOTTY    == 25
ENOMEM    == 12

Running == status = "running" /\ host = NoRequest

\* Bound: a guest makes one request, or works on its segments.
Asks == Running /\ areas = 0

\* The result goes to eax.
Return(v) == eax' = v

\* A wrapper that makes one call and returns its result.  mmap, mremap, shmat
\* and getcwd subtract mem from a pointer, whatever it is, and brk cuts the
\* host's to a word: for an error, or an address outside mem, the result can
\* be any word.
Makes(request) ==
  /\ host' = request
  /\ \E r \in HostResults : Return(r)
  /\ UNCHANGED <<loaderVars, segVars, areas>>

Forward ==
  /\ Asks
  /\ \E w \in syscalls, a \in Registers : Makes(Forwarded(w, a))

\* The wrappers that choose how to pass an argument.
Chosen ==
  /\ Asks
  /\ \E a \in Registers :
       \/ Makes(do_open(a, CreatBit))
       \/ Makes(do_sysfs(a))
       \/ Makes(do_time(a))
       \/ \E class \in DOMAIN IoctlKinds : Makes(do_ioctl(class, a))
       \/ \E h, r \in Handlers : Makes(do_rt_sigaction(a, h, r))

\* No call is made: ioctl outside its range, the entries unimpl and do_break,
\* and the wrappers without a body, whose result is undefined.
Immediate ==
  /\ Asks
  /\ \E v \in {N - ENOTTY, 0} \cup HostResults : Return(v)
  /\ host' = [by |-> "immediate"]
  /\ UNCHANGED <<loaderVars, segVars, areas>>

\* The sentinel makes the instruction loop stop.
Exit ==
  /\ Asks
  /\ Return(Sentinel) /\ status' = "exited"
  /\ UNCHANGED <<mem, esp, eip, sheader, symbols, given, segVars, host, areas>>

\* The guest's words at Scratch, byte by byte.
Filled(words) ==
  [x \in Addr |->
     LET d == Below(x, Scratch)
         v == words[(d \div 4) + 1]
     IN IF d < 4 * Len(words)
        THEN CASE d % 4 = 0 -> Byte0(v) [] d % 4 = 1 -> Byte1(v)
               [] d % 4 = 2 -> Byte2(v) [] OTHER -> Byte3(v)
        ELSE mem[x]]

\* An array of struct iovec: base and length by turns.
Pairs(iovs) ==
  [k \in 1..(2 * Len(iovs)) |-> iovs[(k + 1) \div 2][IF k % 2 = 1 THEN 1 ELSE 2]]

Writev(iovs) ==
  /\ Asks
  /\ mem' = Filled(Pairs(iovs))
  /\ host' = [by |-> "writev", iovs |-> iovecs(mem', Scratch, Len(iovs)), guest |-> iovs]
  /\ \E r \in HostResults : Return(r)
  /\ UNCHANGED <<esp, eip, status, sheader, symbols, given, segVars, areas>>

\* Two words per descriptor: fd, and events with revents.
Poll(answers) ==
  /\ Asks
  /\ LET m == Filled([i \in 1..(2 * Len(answers)) |-> 1])
     IN \/ /\ mem' = revents(m, Scratch, answers)
           /\ Return(Len(answers))
        \/ mem' = m /\ Return(N - 1)
        \/ mem' = m /\ Return(N - ENOMEM)
  /\ host' = [by |-> "poll", answers |-> answers]
  /\ UNCHANGED <<esp, eip, status, sheader, symbols, given, segVars, areas>>

\* The guest starts the program it was started with, with the arguments and
\* the environment it found on its stack.
Execve ==
  /\ Asks /\ given.line.mode \in ElfModes
  /\ host' = do_execve(mem, <<Argv(1), At(esp, 8), At(esp, 4 * (2 + argc))>>)
  /\ \E r \in HostResults : Return(r)
  /\ UNCHANGED <<loaderVars, segVars, areas>>

\* struct user_desc at Scratch: entry_number, base_addr, limit.
SetThreadArea(entry, base, limit) ==
  LET m == Filled(<<entry % N, base, limit>>)
      e == read32(m, Scratch)
  IN /\ do_set_thread_area(IF e = N - 1 THEN NoEntry ELSE e,
                           read32(m, At(Scratch, 4)), read32(m, At(Scratch, 8)))
     /\ mem' = IF seen'.result = 0 THEN write32(m, Scratch, seen'.index) ELSE m
     /\ Return(seen'.result % N)

SegmentStep ==
  /\ Running /\ areas < MaxAreas
  /\ areas' = areas + 1
  /\ \/ /\ \E entry \in AreaEntries, base \in AreaBases, limit \in AreaLimits :
             SetThreadArea(entry, base, limit)
        /\ UNCHANGED <<esp, eip, status, sheader, symbols, given, host>>
     \/ /\ \/ \E table \in GdtPlaces : lgdt_i(table)
           \/ \E e \in Entries : mov_gs(Selector(e))
           \/ \E sel \in Selectors : lsl_i(sel) \/ verr_i(sel) \/ verw_i(sel)
        /\ UNCHANGED <<loaderVars, eax, host>>

Start ==
  /\ \E c \in CommandLines : main(c)
  /\ UNCHANGED <<segVars, eax, host, areas>>

Init ==
  /\ LoaderInit /\ SegInit
  /\ eax = 0 /\ host = NoRequest /\ areas = 0

Next ==
  \/ Start
  \/ Forward \/ Chosen \/ Immediate \/ Exit \/ Execve
  \/ \E iovs \in Iovecs : Writev(iovs)
  \/ \E answers \in Answers : Poll(answers)
  \/ SegmentStep

Spec == Init /\ [][Next]_processVars

---------------------------------------------------------------------------

\* The parameters that the prototypes in the comments of src/src/syscall.c
\* declare as pointers, by position.
First == {"open", "stat", "lstat", "mmap", "mprotect", "munmap", "brk", "access", "pipe", "msync",
          "truncate", "getcwd", "chdir", "rename", "mkdir", "rmdir", "creat", "link", "unlink",
          "symlink", "readlink", "chmod", "chown", "lchown", "getresuid", "getresgid", "mknod",
          "uselib", "mlock", "munlock", "chroot", "acct", "mount", "umount2", "swapon", "swapoff",
          "sethostname", "setdomainname", "set_tid_address"}
Second == {"read", "write", "rename", "link", "symlink", "readlink", "syslog", "getgroups",
           "setgroups", "getresuid", "getresgid", "modify_ldt", "mount"}
Third  == {"getresuid", "getresgid", "ptrace", "mount", "sendfile"}
Fourth == {"ptrace"}
Fifth  == {"mount"}
Pointers(w) == {k \in 1..5 : \/ k = 1 /\ w \in First
                             \/ k = 2 /\ w \in Second
                             \/ k = 3 /\ w \in Third
                             \/ k = 4 /\ w \in Fourth
                             \/ k = 5 /\ w \in Fifth}

\* Declared _Nullable there: {<<wrapper, position>>}.
Nullable == {<<"sendfile", 3>>, <<"acct", 1>>, <<"mount", 5>>}

\* fchown, mremap, time and the ones with host structures are differences the
\* README lists; ioctl, sysfs and rt_sigaction depend on the operation.
Plain == (syscalls \ {"fchown", "mremap"}) \cup {"open"}

\* Every pointer of a prototype reaches the host as an address in guest memory
\* (or as NULL, where that is allowed and passed), no integer is moved, and
\* each buffer writev names is the guest's.
PointersTranslated ==
  /\ host.by \in Plain =>
       \A k \in DOMAIN host.args :
         LET arg == host.args[k] IN
           \/ arg.base = "host"
           \/ /\ k \in Pointers(host.by)
              /\ arg = IF <<host.by, k>> \in Nullable /\ host.regs[k] = 0
                         THEN NULL ELSE Mem(host.regs[k])
           \/ k \notin Pointers(host.by) /\ arg = Argument(INT, host.regs[k])
  /\ host.by = "writev" =>
       /\ DOMAIN host.iovs = DOMAIN host.guest
       /\ \A i \in DOMAIN host.iovs :
            host.iovs[i] = [base |-> Mem(host.guest[i][1]), len |-> host.guest[i][2]]

\* A guest that passes on what it found on its stack makes the host start the
\* file of the command line with its arguments and environment: the arrays of
\* 32 bit pointers load_stack built are the ones do_execve takes apart.
ExecvePassesArguments ==
  host.by = "execve" =>
    LET Strings(ptrs) == [i \in DOMAIN ptrs |-> StringAt(mem, ptrs[i].off)]
    IN /\ StringAt(mem, host.path.off) = given.line.args[1]
       /\ Strings(host.argv) = given.line.args
       /\ Strings(host.envp) = given.line.env
=============================================================================
