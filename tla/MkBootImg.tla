----------------------------- MODULE MkBootImg -----------------------------
(***************************************************************************)
(* mkbootimg.py: the layout of the boot image that carries U-Boot.  Of an  *)
(* image the model keeps the two header fields a bootloader finds the      *)
(* kernel by, and the size of each part of the file.                       *)
(***************************************************************************)
EXTENDS Naturals

CONSTANT MaxField   \* the greatest value of a header field: 2^32 - 1
ASSUME MaxFieldAssumption == MaxField \in Nat

\* struct.calcsize("<8s10I16s512s32s")
HeaderSize == 8 + 10 * 4 + 16 + 512 + 32

\* Mutant: a size that is aligned already gets another page.
align_past(n, a) == ((n + a) \div a) * a
align(n, a) == ((n + a - 1) \div a) * a

\* struct.pack raises on a number that does not fit its field.
Packs(kernel, page) == kernel <= MaxField /\ page <= MaxField

\* Both errors come before the output file is opened.
Accepts(kernel, page) == Packs(kernel, page) /\ HeaderSize <= page

\* What write_boot_img writes for a kernel of that many bytes.
BootImage(kernel, page) ==
    [kernel_size |-> kernel, page_size |-> page,
     header |-> page, kernel |-> kernel, zeros |-> align(kernel, page) - kernel]

Length(image) == image.header + image.kernel + image.zeros

\* How a bootloader reads an image of this layout: the header fills a page,
\* the kernel the pages after it, and there is nothing else.
KernelPages(image, pages) ==
    /\ Length(image) = (pages + 1) * image.page_size
    /\ image.kernel_size <= pages * image.page_size
    /\ pages * image.page_size < image.kernel_size + image.page_size
Readable(image) ==
    /\ image.header = image.page_size /\ HeaderSize <= image.page_size
    /\ image.kernel_size = image.kernel
    /\ \E pages \in 0 .. image.kernel : KernelPages(image, pages)
=============================================================================
