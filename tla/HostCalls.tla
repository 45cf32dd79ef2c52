----------------------------- MODULE HostCalls -----------------------------
(***************************************************************************)
(* The wrappers of src/src/syscall.c: each turns the registers of a guest  *)
(* into the arguments of a system call of the host.  An address of the     *)
(* guest is an offset into mem[]; the host must get mem + address for it.  *)
(*                                                                         *)
(* A wrapper that only does that is an entry of a table: how each argument *)
(* is passed, in the order of the registers ebx, ecx, edx, esi, edi, ebp.  *)
(* There is one table per stretch of the file, of the wrappers that the    *)
(* array syscalls[] names; the others are never called.                    *)
(***************************************************************************)
EXTENDS Memory, SequencesExt

INT  == "int"     \* cast to an integer
PTR  == "ptr"     \* mem + register
OPT  == "opt"     \* NULL if the register is 0, mem + register if not
HOST == "host"    \* a variable of the wrapper

Read ==
  [read |-> <<INT, PTR, INT>>, write |-> <<INT, PTR, INT>>, close |-> <<INT>>,
   stat |-> <<PTR, HOST>>, fstat |-> <<INT, HOST>>, lstat |-> <<PTR, HOST>>]

Map ==
  [mmap |-> <<PTR, INT, INT, INT, INT, INT>>, mprotect |-> <<PTR, INT, INT>>,
   munmap |-> <<PTR, INT>>, brk |-> <<PTR>>]

\* mremap passes its arguments to sched_yield, which ignores them.
Access ==
  [access |-> <<PTR, INT>>, pipe |-> <<PTR>>, sched_yield |-> << >>,
   mremap |-> <<PTR, INT, INT, INT, PTR>>, msync |-> <<PTR, INT, INT>>]

Dup ==
  [dup |-> <<INT>>, dup2 |-> <<INT, INT>>, pause |-> << >>, alarm |-> <<INT>>,
   getpid |-> << >>, sendfile |-> <<INT, INT, OPT, INT>>]

Fork == [fork |-> << >>, vfork |-> << >>]

Kill == [kill |-> <<INT, INT>>]

Truncate ==
  [fsync |-> <<INT>>, fdatasync |-> <<INT>>, truncate |-> <<PTR, INT>>, ftruncate |-> <<INT, INT>>]

\* Mutant of Paths: the buffer of readlink is passed as an integer.
PathsRawBuffer ==
  [getcwd |-> <<PTR, INT>>, chdir |-> <<PTR>>, fchdir |-> <<INT>>, rename |-> <<PTR, PTR>>,
   mkdir |-> <<PTR, INT>>, rmdir |-> <<PTR>>, creat |-> <<PTR, INT>>, link |-> <<PTR, PTR>>,
   unlink |-> <<PTR>>, symlink |-> <<PTR, PTR>>, readlink |-> <<PTR, INT, INT>>]

Paths ==
  [getcwd |-> <<PTR, INT>>, chdir |-> <<PTR>>, fchdir |-> <<INT>>, rename |-> <<PTR, PTR>>,
   mkdir |-> <<PTR, INT>>, rmdir |-> <<PTR>>, creat |-> <<PTR, INT>>, link |-> <<PTR, PTR>>,
   unlink |-> <<PTR>>, symlink |-> <<PTR, PTR>>, readlink |-> <<PTR, PTR, INT>>]

Modes ==
  [chmod |-> <<PTR, INT>>, fchmod |-> <<INT, INT>>, chown |-> <<PTR, INT, INT>>,
   fchown |-> <<INT, INT, INT>>, lchown |-> <<PTR, INT, INT>>, umask |-> <<INT>>,
   ptrace |-> <<INT, INT, PTR, PTR>>, getuid |-> << >>, syslog |-> <<INT, PTR, INT>>,
   getgid |-> << >>, setuid |-> <<INT>>]

Ids ==
  [setgid |-> <<INT>>, geteuid |-> << >>, getegid |-> << >>, setpgid |-> <<INT, INT>>,
   getppid |-> << >>, getpgrp |-> << >>, setsid |-> << >>, setreuid |-> <<INT, INT>>,
   setregid |-> <<INT, INT>>, getgroups |-> <<INT, PTR>>, setgroups |-> <<INT, PTR>>,
   setresuid |-> <<INT, INT, INT>>, getresuid |-> <<PTR, PTR, PTR>>]

MoreIds ==
  [setresgid |-> <<INT, INT, INT>>, getresgid |-> <<PTR, PTR, PTR>>, getpgid |-> <<INT>>,
   setfsuid |-> <<INT>>, setfsgid |-> <<INT>>, getsid |-> <<INT>>, mknod |-> <<PTR, INT, INT>>,
   uselib |-> <<PTR>>, personality |-> <<INT>>]

Priorities ==
  [getpriority |-> <<INT, INT>>, setpriority |-> <<INT, INT, INT>>,
   sched_get_priority_max |-> <<INT>>, sched_get_priority_min |-> <<INT>>,
   mlock |-> <<PTR, INT>>, munlock |-> <<PTR, INT>>, mlockall |-> <<INT>>, munlockall |-> << >>,
   vhangup |-> << >>, modify_ldt |-> <<INT, PTR, INT>>]

System ==
  [chroot |-> <<PTR>>, sync |-> << >>, acct |-> <<OPT>>, mount |-> <<PTR, PTR, PTR, INT, OPT>>,
   umount2 |-> <<PTR, INT>>, swapon |-> <<PTR, INT>>, swapoff |-> <<PTR>>, reboot |-> <<INT>>,
   sethostname |-> <<PTR, INT>>, setdomainname |-> <<PTR, INT>>, iopl |-> <<INT>>,
   ioperm |-> <<INT, INT, INT>>]

Tid == [set_tid_address |-> <<PTR>>, restart_syscall |-> << >>]

\* The array syscalls[].
Tables ==
  {Read, Map, Access, Dup, Fork, Kill, Truncate, Paths, Modes, Ids, MoreIds, Priorities, System, Tid}
syscalls  == UNION {DOMAIN t : t \in Tables}
Passed(w) == (CHOOSE t \in Tables : w \in DOMAIN t)[w]

\* The host's call; fchown passes a file descriptor to a call for paths.
HostName(w) ==
  CASE w \in {"fchown", "lchown"} -> "chown"
    [] w = "mremap" -> "sched_yield"
    [] OTHER -> w

---------------------------------------------------------------------------
(* Arguments *)

NULL   == [base |-> "none", off |-> 0]
Mem(a) == [base |-> "mem", off |-> a]

Argument(kind, v) ==
  CASE kind = INT -> [base |-> "none", off |-> v]
    [] kind = PTR -> Mem(v)
    [] kind = OPT -> IF v = 0 THEN NULL ELSE Mem(v)
    [] OTHER -> [base |-> "host", off |-> 0]

\* The call a wrapper makes for the registers a.
Request(w, kinds, a) ==
  [by |-> w, call |-> HostName(w), regs |-> a,
   args |-> [k \in DOMAIN kinds |-> Argument(kinds[k], a[k])]]

Forwarded(w, a) == Request(w, Passed(w), a)

\* The mode is passed only if the flags ask for a new file; bit is O_CREAT.
do_open(a, bit) ==
  Request("open", IF (a[2] \div bit) % 2 = 1 THEN <<PTR, INT, INT>> ELSE <<PTR, INT>>, a)

do_sysfs(a) ==
  Request("sysfs",
          CASE a[1] = 1 -> <<INT, PTR>> [] a[1] = 2 -> <<INT, INT, PTR>> [] OTHER -> <<INT>>, a)

\* The address is passed as it is.
do_time(a) == Request("time", <<INT>>, a)

\* By operation; an operation in the range that no branch knows leaves the
\* result uninitialised, and one outside the range gets -ENOTTY.
IoctlKinds ==
  [termios |-> <<INT, INT, PTR>>, int |-> <<INT, INT, INT>>, void |-> <<INT, INT>>,
   intp |-> <<INT, INT, PTR>>, pid |-> <<INT, INT, PTR>>, winsize |-> <<INT, INT, PTR>>]
do_ioctl(class, a) == Request("ioctl", IoctlKinds[class], a)

\* Handlers 0 and 1 are SIG_DFL and SIG_IGN, another one is an address; the
\* old action is not asked for.
do_rt_sigaction(a, handler, restorer) ==
  [Request("rt_sigaction", <<INT, HOST, INT>>, a) EXCEPT
     !.args = <<@[1], @[2], NULL,
                IF handler \in {0, 1} THEN Argument(INT, handler) ELSE Mem(handler),
                Argument(OPT, restorer)>>]

---------------------------------------------------------------------------
(* Arrays in guest memory.  a is the address of the array. *)

\* The translated struct iovec of do_writev.
iovecs(m, a, count) ==
  [i \in 1..count |-> [base |-> Mem(read32(m, At(a, 8 * (i - 1)))),
                       len |-> read32(m, At(a, (8 * (i - 1)) + 4))]]

\* do_poll copies the requests and, if the host succeeds, the answers: two
\* bytes at offset 6 of each element.
revents(m, a, answers) ==
  LET n == Len(answers)
      copied[i \in 0..n] == IF i = 0 THEN m
                            ELSE write16(copied[i - 1], At(a, (8 * (i - 1)) + 6), answers[i])
  IN copied[n]

\* Mutant of buffer_size: the last pointer is not counted.
buffer_sizeShort(m, a) ==
  CHOOSE n \in 0..(N \div 4) :
    /\ read32(m, At(a, 4 * n)) = 0 \/ read32(m, At(a, 4 * (n + 1))) = 0
    /\ \A k \in 0..(n - 1) : read32(m, At(a, 4 * k)) # 0 /\ read32(m, At(a, 4 * (k + 1))) # 0

\* The number of pointers before the null pointer.
buffer_size(m, a) ==
  CHOOSE n \in 0..(N \div 4) :
    /\ read32(m, At(a, 4 * n)) = 0
    /\ \A k \in 0..(n - 1) : read32(m, At(a, 4 * k)) # 0

translate_buffer_dirs_32_to_64(m, a, size) == [i \in 1..size |-> Mem(read32(m, At(a, 4 * (i - 1))))]

do_execve(m, a) ==
  [by |-> "execve", path |-> Mem(a[1]),
   argv |-> translate_buffer_dirs_32_to_64(m, a[2], buffer_size(m, a[2])),
   envp |-> translate_buffer_dirs_32_to_64(m, a[3], buffer_size(m, a[3]))]
=============================================================================
